---- MODULE Spec2Model ----
(***************************************************************************)
(* Verification model of the caching / parallel-retrieval layer:           *)
(*   - Cache               (src/src/data/cache.py)                         *)
(*   - data.DataLoader     (src/src/data/data_loader.py)                   *)
(*   - utils.DataLoader    (src/src/utils/data_loader.py)                  *)
(* The specifications share the variables below:                           *)
(*   Spec       one caller of Cache (sequential contracts, eviction)       *)
(*   TtlSpec    one caller of Cache and a clock                            *)
(*   ConcSpec   two concurrent callers of Cache                            *)
(*   LoaderSpec data.DataLoader: single reads, clock, restarts             *)
(*   RestartSpec LoaderSpec without reconfiguration of the instance        *)
(*   BatchSpec  data.DataLoader.load_stocks_data with its worker pool      *)
(*   KeySpec    evaluations of Cache._generate_cache_key                   *)
(*   FaultSpec  two callers of Cache, disk reads and writes may fail       *)
(*   ConstructSpec  Cache.__init__                                         *)
(*   WriteSpec  two callers of Cache, the file write in two steps          *)
(*   DetSpec    the batch loads of both loaders with fixed fetch outcomes  *)
(*   LockSpec   two callers of data.DataLoader and its _cache_lock         *)
(*   ConfigSpec data.DataLoader.__init__ with any max_workers              *)
(*   DomainSpec one caller of Cache on two tables                          *)
(*   UtFaultSpec  utils.DataLoader, disk writes may fail                   *)
(*   ClearRaceSpec  Cache: one thread writes and clears, one reads         *)
(*   WritersSpec  two threads calling set_prices on one Cache              *)
(*   PrefixSpec one caller of Cache, clears by a prefix of an identifier   *)
(*   InstanceSpec  two data.DataLoader instances with two cache roots      *)
(*   UtTtlSpec  utils.DataLoader, one symbol, clock in hours, restarts     *)
(*   LiveSpec   fair scheduling: callers of Cache lock by lock, or a batch *)
(***************************************************************************)
EXTENDS Integers, Sequences, FiniteSets, TLC

(***************************************************************************)
(* Bounds of the model                                                     *)
(***************************************************************************)
MaxCapacity == 2      \* largest max_memory_items a Cache is constructed with
MaxHits == 3          \* cap on an access counter (guards the operations)
MaxTicks == 2         \* number of clock advances (one day each)

(***************************************************************************)
(* Program constants                                                       *)
(***************************************************************************)
SecondsPerDay == 86400        \* cache_timeout_days * 86400
KeyHashThreshold == 100       \* len(param_str) > 100
DefaultTimeoutDays == 1       \* cache_timeout_days: int = 1

(***************************************************************************)
(* Values                                                                  *)
(***************************************************************************)
Threads == {"t1", "t2"}
DataTypes == {"prices", "metrics"}
Tickers == {"AAPL", "aapl", "MSFT"}
StartDate == "2023-01-01"
EndDates == {"2023-01-10", "2023-01-11"}

\* str.lower() on the identifiers used
Lower(ticker) ==
    CASE ticker = "AAPL" -> "aapl"
      [] ticker = "aapl" -> "aapl"
      [] ticker = "MSFT" -> "msft"
      [] ticker = "GOOG" -> "goog"
      [] ticker = "AAP" -> "aap"
      [] ticker = "None" -> "None"
      [] OTHER -> ticker

\* Python None, and the payloads handed to the cache: a response object and
\* a DataFrame whose numeric columns are float64.
NoData == [kind |-> "none", val |-> 0, dtype |-> "none"]
CachePayloads ==
    { [kind |-> "response", val |-> 1, dtype |-> "float64"],
      [kind |-> "frame",    val |-> 2, dtype |-> "float64"] }

NoFile == [exists |-> FALSE, timestamp |-> 0, data |-> NoData]

\* hashlib.md5(param_str.encode()).hexdigest(), idealised as collision free
Md5Hex(s) == "md5:" \o s

\* Cache._generate_cache_key with the keyword parameters already rendered
\* as the list of "k=v" strings in sorted order.
JoinParams(params_list) ==
    IF Len(params_list) = 0 THEN ""
    ELSE IF Len(params_list) = 1 THEN "_" \o params_list[1]
    ELSE "_" \o params_list[1] \o "_" \o params_list[2]

GenerateCacheKey(ticker, params_list) ==
    LET param_str == Lower(ticker) \o JoinParams(params_list)
    IN  IF Len(param_str) > KeyHashThreshold
        THEN Lower(ticker) \o "_" \o Md5Hex(param_str)
        ELSE param_str

\* get_prices / set_prices: start_date=..., end_date=... ("end_date" sorts
\* before "start_date"); get_metrics / set_metrics: no parameters.
PricesKey(ticker, end_date) ==
    GenerateCacheKey(ticker, << "end_date=" \o end_date,
                                "start_date=" \o StartDate >>)
MetricsKey(ticker) == GenerateCacheKey(ticker, << >>)

\* The requests the callers make: the spec's scenario (AAPL in either case,
\* two end dates) and a second symbol.
Requests ==
    { [ticker |-> "AAPL", end_date |-> "2023-01-10"],
      [ticker |-> "aapl", end_date |-> "2023-01-10"],
      [ticker |-> "AAPL", end_date |-> "2023-01-11"],
      [ticker |-> "MSFT", end_date |-> "2023-01-10"] }
ConcRequests ==
    { [ticker |-> "AAPL", end_date |-> "2023-01-10"],
      [ticker |-> "MSFT", end_date |-> "2023-01-10"] }

RequestKey(d, req) ==
    IF d = "prices" THEN PricesKey(req.ticker, req.end_date)
    ELSE MetricsKey(req.ticker)

AllKeys == { RequestKey(d, req) : d \in DataTypes, req \in Requests }

StartsWith(s, p) == Len(p) <= Len(s) /\ SubSeq(s, 1, Len(p)) = p

(***************************************************************************)
(* State                                                                   *)
(***************************************************************************)
VARIABLES
    \* Cache configuration (constructor arguments)
    memory_cache_enabled, disk_cache_enabled, memory_optimization,
    max_memory_items, cache_timeout_days,
    \* Cache state
    cache,        \* _<type>_cache: insertion-ordered dict, a sequence of entries
    cache_hits,   \* _cache_hits[type][key]; 0 stands for "no record"
    disk,         \* <cache_dir>/<type>/<key>.pkl
    lock,         \* owner of _cache_lock, or "none"
    now,          \* time.time()
    \* callers
    pc, frame,
    \* history kept for the single caller of Spec and TtlSpec
    last,          \* the call that returned most recently
    access_order,  \* keys of each table, least recently accessed first
    evicted,       \* keys removed by _enforce_memory_limits in the current call
    written_at,    \* time of the latest set_X of each key, -1 if none
    \* data.DataLoader configuration (constructor arguments)
    dl_memory_cache_enabled, dl_disk_cache_enabled, dl_memory_optimization,
    dl_cache_timeout_days, max_workers,
    \* data.DataLoader state
    dl_memory,     \* DataLoader._memory_cache[type][key] (class level)
    dl_disk,       \* <cache_dir>/<type>/<key>.pkl
    dl_pc, dl_frame,
    dl_lock,       \* owner of DataLoader._cache_lock, or "none"
    \* load_stocks_data: the list passed, its futures, the map being built
    tickers, futures, result,
    \* history kept for the single caller of LoaderSpec
    dl_last,       \* the call that returned most recently
    \* evaluation of a function on its own: the arguments of the last two
    \* calls and what they returned
    args, ret,
    \* utils.DataLoader: constructor arguments, memory_cache, the files under
    \* cache_dir, and the load_stock_data call in progress
    ut_disk_cache_enabled, ut_max_workers,
    memory_cache, ut_files, ut_pc, ut_frame, ut_tickers, ut_futures, ut_result

config == << memory_cache_enabled, disk_cache_enabled, memory_optimization,
             max_memory_items, cache_timeout_days >>
history == << last, access_order, evicted, written_at >>
dl_config == << dl_memory_cache_enabled, dl_disk_cache_enabled,
                dl_memory_optimization, dl_cache_timeout_days, max_workers >>
batch == << tickers, futures, result >>
loader == << dl_config, dl_memory, dl_disk, dl_pc, dl_frame, dl_lock, batch, dl_last >>
cache_vars == << config, cache, cache_hits, disk, lock, pc, frame, history >>
call == << args, ret >>
utils == << ut_disk_cache_enabled, ut_max_workers, memory_cache, ut_files, ut_pc,
           ut_frame, ut_tickers, ut_futures, ut_result >>
vars == << config, cache, cache_hits, disk, lock, now, pc, frame, history, loader,
          call, utils >>

(***************************************************************************)
(* The insertion-ordered dict                                              *)
(***************************************************************************)
CacheKeys(tbl) == { tbl[i].key : i \in 1..Len(tbl) }
Has(tbl, k) == k \in CacheKeys(tbl)
IndexOf(tbl, k) == CHOOSE i \in 1..Len(tbl) : tbl[i].key = k
CacheGet(tbl, k) == tbl[IndexOf(tbl, k)].data
\* a store that leaves the table as it was
CachePutDropped(tbl, k, v) == tbl

\* d[k] = v: an existing key keeps its position, a new key goes last
CachePut(tbl, k, v) ==
    IF Has(tbl, k) THEN [tbl EXCEPT ![IndexOf(tbl, k)].data = v]
    ELSE Append(tbl, [key |-> k, data |-> v])
CacheDel(tbl, ks) == SelectSeq(tbl, LAMBDA e : e.key \notin ks)

(***************************************************************************)
(* Cache._optimize_memory                                                  *)
(***************************************************************************)
OptimizeMemory(data) ==
    IF ~memory_optimization THEN data
    ELSE IF data.kind = "frame" /\ data.dtype = "float64"
         THEN [data EXCEPT !.dtype = "float32"]
         ELSE data

(***************************************************************************)
(* Cache._enforce_memory_limits                                            *)
(***************************************************************************)
\* rank of entry i in sorted(cache_dict.keys(), key=lambda k: hits.get(k, 0));
\* Python's sort is stable, so ties keep the dict's insertion order
SortRankDescending(tbl, hits, i) ==
    1 + Cardinality({ j \in 1..Len(tbl) :
            \/ hits[tbl[j].key] > hits[tbl[i].key]
            \/ (hits[tbl[j].key] = hits[tbl[i].key] /\ j < i) })

SortRank(tbl, hits, i) ==
    1 + Cardinality({ j \in 1..Len(tbl) :
            \/ hits[tbl[j].key] < hits[tbl[i].key]
            \/ (hits[tbl[j].key] = hits[tbl[i].key] /\ j < i) })

\* a sort by counter that puts the later of two equal entries first
sorted_keys_reversed_ties(tbl, hits) ==
    [ r \in 1..Len(tbl) |->
        tbl[CHOOSE i \in 1..Len(tbl) :
                r = 1 + Cardinality({ j \in 1..Len(tbl) :
                        \/ hits[tbl[j].key] < hits[tbl[i].key]
                        \/ (hits[tbl[j].key] = hits[tbl[i].key] /\ j > i) })].key ]

sorted_keys(tbl, hits) ==
    [ r \in 1..Len(tbl) |->
        tbl[CHOOSE i \in 1..Len(tbl) : SortRank(tbl, hits, i) = r].key ]

keys_to_remove(tbl, hits, limit) ==
    IF Len(tbl) <= limit THEN {}
    ELSE { sorted_keys(tbl, hits)[r] : r \in 1..(Len(tbl) - limit) }

EnforceCacheOffByOne(tbl, hits, limit) ==
    CacheDel(tbl, keys_to_remove(tbl, hits, limit + 1))

EnforceCache(tbl, hits, limit) == CacheDel(tbl, keys_to_remove(tbl, hits, limit))
\* an eviction that keeps the counters of the keys it removes
EnforceHitsKept(tbl, hits, limit) == hits

EnforceHits(tbl, hits, limit) ==
    [ k \in DOMAIN hits |->
        IF k \in keys_to_remove(tbl, hits, limit) THEN 0 ELSE hits[k] ]

(***************************************************************************)
(* Cache._save_to_disk_cache / Cache._load_from_disk_cache                 *)
(***************************************************************************)
\* a write that keeps only the file it writes
SaveToDiskPruning(files, k, data) ==
    [j \in DOMAIN files |->
        IF j = k THEN [exists |-> TRUE, timestamp |-> now, data |-> data] ELSE NoFile]

SaveToDisk(files, k, data) ==
    [files EXCEPT ![k] = [exists |-> TRUE, timestamp |-> now, data |-> data]]

\* the file after open(cache_file, 'wb') when pickle.dump did not complete;
\* pickle.load of it raises
TruncatedFile ==
    [exists |-> TRUE, timestamp |-> 0,
     data |-> [kind |-> "truncated", val |-> 0, dtype |-> "none"]]

DiskFresh(file) ==
    /\ file.exists
    /\ ~(now - file.timestamp > cache_timeout_days * SecondsPerDay)

\* (success, data)
LoadFromDisk(files, k) ==
    IF disk_cache_enabled /\ files[k].data.kind # "truncated" /\ DiskFresh(files[k])
    THEN << TRUE, files[k].data >>
    ELSE << FALSE, NoData >>

(***************************************************************************)
(* Callers                                                                 *)
(***************************************************************************)
NoFrame == [op |-> "none", d |-> "none", key |-> "none", data |-> NoData]
MkFrame(op, d, k, data) == [op |-> op, d |-> d, key |-> k, data |-> data]

Goto(t, label) == pc' = [pc EXCEPT ![t] = label]

\* get_X, lines 336-343: memory lookup under the lock
GetMemory(t, d, req) ==
    LET k == RequestKey(d, req) IN
    /\ pc[t] = "idle"
    /\ IF memory_cache_enabled
       THEN /\ lock = "none"
            /\ IF Has(cache[d], k)
               THEN /\ cache_hits[d][k] < MaxHits
                    /\ cache_hits' = [cache_hits EXCEPT ![d][k] = @ + 1]
                    /\ frame' = [frame EXCEPT ![t] =
                                   MkFrame("get", d, k, CacheGet(cache[d], k))]
                    /\ Goto(t, "done")
               ELSE /\ frame' = [frame EXCEPT ![t] = MkFrame("get", d, k, NoData)]
                    /\ Goto(t, "get_disk")
                    /\ UNCHANGED cache_hits
       ELSE /\ frame' = [frame EXCEPT ![t] = MkFrame("get", d, k, NoData)]
            /\ Goto(t, "get_disk")
            /\ UNCHANGED cache_hits
    /\ UNCHANGED << config, cache, disk, lock, now >>

\* get_X, lines 345-357: disk lookup, outside the lock
GetDisk(t) ==
    LET d == frame[t].d
        k == frame[t].key
        loaded == LoadFromDisk(disk[d], k)
    IN
    /\ pc[t] = "get_disk"
    /\ IF loaded[1]
       THEN /\ frame' = [frame EXCEPT ![t].data = loaded[2]]
            /\ Goto(t, IF memory_cache_enabled THEN "get_promote" ELSE "done")
       ELSE /\ frame' = [frame EXCEPT ![t].data = NoData]
            /\ Goto(t, "done")
    /\ UNCHANGED << config, cache, cache_hits, disk, lock, now >>

\* get_X, lines 351-353: the disk hit is stored in memory, under the lock
GetPromote(t) ==
    LET d == frame[t].d
        k == frame[t].key
    IN
    /\ pc[t] = "get_promote"
    /\ lock = "none"
    /\ cache_hits[d][k] < MaxHits
    /\ lock' = t
    /\ cache' = [cache EXCEPT ![d] = CachePut(@, k, frame[t].data)]
    /\ cache_hits' = [cache_hits EXCEPT ![d][k] = @ + 1]
    /\ Goto(t, "get_enforce")
    /\ UNCHANGED << config, disk, now, frame >>

\* get_X line 354 / set_X line 380: _enforce_memory_limits, then the lock
\* is released
Enforce(t) ==
    LET d == frame[t].d IN
    /\ pc[t] \in {"get_enforce", "set_enforce"}
    /\ lock = t
    /\ cache' = [cache EXCEPT ![d] =
                    EnforceCache(cache[d], cache_hits[d], max_memory_items)]
    /\ cache_hits' = [cache_hits EXCEPT ![d] =
                    EnforceHits(cache[d], cache_hits[d], max_memory_items)]
    /\ lock' = "none"
    /\ Goto(t, IF pc[t] = "get_enforce" THEN "done" ELSE "set_disk")
    /\ UNCHANGED << config, disk, now, frame >>

\* set_X, lines 369-379: compaction, then the memory write under the lock
SetMemory(t, d, req, data) ==
    LET k == RequestKey(d, req)
        stored == OptimizeMemory(data)
    IN
    /\ pc[t] = "idle"
    /\ frame' = [frame EXCEPT ![t] = MkFrame("set", d, k, stored)]
    /\ IF memory_cache_enabled
       THEN /\ lock = "none"
            /\ cache_hits[d][k] < MaxHits
            /\ lock' = t
            /\ cache' = [cache EXCEPT ![d] = CachePut(@, k, stored)]
            /\ cache_hits' = [cache_hits EXCEPT ![d][k] = @ + 1]
            /\ Goto(t, "set_enforce")
       ELSE /\ Goto(t, "set_disk")
            /\ UNCHANGED << cache, cache_hits, lock >>
    /\ UNCHANGED << config, disk, now >>

\* set_X, lines 383-384: the disk write, outside the lock
SetDisk(t) ==
    LET d == frame[t].d
        k == frame[t].key
    IN
    /\ pc[t] = "set_disk"
    /\ disk' = IF disk_cache_enabled
               THEN [disk EXCEPT ![d] = SaveToDisk(@, k, frame[t].data)]
               ELSE disk
    /\ Goto(t, "done")
    /\ UNCHANGED << config, cache, cache_hits, lock, now, frame >>

\* _load_from_disk_cache, lines 282-284: a file operation of the lookup
\* raises (no permission, unreadable or corrupt file); the except branch
\* returns (False, None)
GetDiskFails(t) ==
    /\ pc[t] = "get_disk"
    /\ disk_cache_enabled
    /\ frame' = [frame EXCEPT ![t].data = NoData]
    /\ Goto(t, "done")
    /\ UNCHANGED << config, cache, cache_hits, disk, lock, now >>

\* _save_to_disk_cache, lines 225-243: the write raises, either in open()
\* (nothing written) or in pickle.dump after open() truncated the file; the
\* except branch returns False
WriteFailures == {"open", "dump"}
SetDiskFails(t, how) ==
    LET d == frame[t].d
        k == frame[t].key
    IN
    /\ pc[t] = "set_disk"
    /\ disk_cache_enabled
    /\ disk' = IF how = "dump" THEN [disk EXCEPT ![d][k] = TruncatedFile] ELSE disk
    /\ Goto(t, "done")
    /\ UNCHANGED << config, cache, cache_hits, lock, now, frame >>

\* _save_to_disk_cache seen by other threads, lines 234-235: open(cache_file,
\* 'wb') truncates the file of the key, pickle.dump then fills it
SetDiskOpen(t) ==
    /\ pc[t] = "set_disk"
    /\ disk_cache_enabled
    /\ disk' = [disk EXCEPT ![frame[t].d][frame[t].key] = TruncatedFile]
    /\ Goto(t, "set_dump")
    /\ UNCHANGED << config, cache, cache_hits, lock, now, frame >>

SetDiskDump(t) ==
    /\ pc[t] = "set_dump"
    /\ disk' = [disk EXCEPT ![frame[t].d] = SaveToDisk(@, frame[t].key, frame[t].data)]
    /\ Goto(t, "done")
    /\ UNCHANGED << config, cache, cache_hits, lock, now, frame >>

\* the write when the disk tier is disabled: line 221
SetDiskSkipped(t) ==
    /\ pc[t] = "set_disk"
    /\ ~disk_cache_enabled
    /\ Goto(t, "done")
    /\ UNCHANGED << config, cache, cache_hits, disk, lock, now, frame >>

\* clear_cache(data_type, ticker), lines 630-680: both tiers, under the lock
\* a clear that ignores the data type it was given
ClearedTypesAll(data_type) == DataTypes

ClearedTypes(data_type) == IF data_type = "None" THEN DataTypes ELSE {data_type}
ClearedKey(k, ticker) == ticker = "None" \/ StartsWith(k, Lower(ticker))

ClearCache(t, data_type, ticker) ==
    /\ pc[t] = "idle"
    /\ lock = "none"
    /\ cache' = [ d \in DataTypes |->
                    IF memory_cache_enabled /\ d \in ClearedTypes(data_type)
                    THEN CacheDel(cache[d],
                            { k \in CacheKeys(cache[d]) : ClearedKey(k, ticker) })
                    ELSE cache[d] ]
    /\ cache_hits' = [ d \in DataTypes |->
                    IF memory_cache_enabled /\ d \in ClearedTypes(data_type)
                    THEN [ k \in AllKeys |->
                            IF ClearedKey(k, ticker) THEN 0 ELSE cache_hits[d][k] ]
                    ELSE cache_hits[d] ]
    /\ disk' = [ d \in DataTypes |->
                    IF disk_cache_enabled /\ d \in ClearedTypes(data_type)
                    THEN [ k \in AllKeys |->
                            IF ClearedKey(k, ticker) THEN NoFile ELSE disk[d][k] ]
                    ELSE disk[d] ]
    /\ frame' = [frame EXCEPT ![t] = MkFrame("clear", data_type, Lower(ticker), NoData)]
    /\ Goto(t, "done")
    /\ UNCHANGED << config, lock, now >>

\* the call returns to its caller
Return(t) ==
    /\ pc[t] = "done"
    /\ Goto(t, "idle")
    /\ frame' = [frame EXCEPT ![t] = NoFrame]
    /\ UNCHANGED << config, cache, cache_hits, disk, lock, now >>

\* time passes: one day
ClockAdvance ==
    /\ now < MaxTicks * SecondsPerDay
    /\ now' = now + SecondsPerDay

Tick ==
    /\ ClockAdvance
    /\ UNCHANGED << config, cache, cache_hits, disk, lock, pc, frame >>

(***************************************************************************)
(* Cache.__init__                                                          *)
(***************************************************************************)
CacheInit ==
    /\ memory_cache_enabled \in BOOLEAN
    /\ disk_cache_enabled \in BOOLEAN
    /\ memory_cache_enabled \/ disk_cache_enabled
    /\ memory_optimization \in BOOLEAN
    /\ max_memory_items \in 1..MaxCapacity
    /\ cache_timeout_days = DefaultTimeoutDays
    /\ cache = [d \in DataTypes |-> << >>]
    /\ cache_hits = [d \in DataTypes |-> [k \in AllKeys |-> 0]]
    /\ disk = [d \in DataTypes |-> [k \in AllKeys |-> NoFile]]
    /\ lock = "none"
    /\ pc = [t \in Threads |-> "idle"]
    /\ frame = [t \in Threads |-> NoFrame]
    /\ last = NoFrame
    /\ access_order = [d \in DataTypes |-> << >>]
    /\ evicted = {}
    /\ written_at = [k \in AllKeys |-> -1]

(***************************************************************************)
(* data.DataLoader (src/src/data/data_loader.py)                           *)
(***************************************************************************)
DlThreads == {"main", "w1", "w2"}
WorkerSeq == << "w1", "w2" >>
EndDate == "2023-01-10"
TimeoutChoices == {0, DefaultTimeoutDays}
WorkerChoices == {1, 2}

\* None, pd.DataFrame() and the frame the DataSource returns for a symbol at
\* the current time (numeric columns float64)
DlNone == [kind |-> "none", val |-> "", fetched_at |-> 0, dtype |-> "none"]
EmptyFrame == [kind |-> "empty", val |-> "", fetched_at |-> 0, dtype |-> "none"]
ApiFrame(ticker) ==
    [kind |-> "frame", val |-> Lower(ticker), fetched_at |-> now, dtype |-> "float64"]
ApiOutcomes == {"frame", "empty", "raise"}

NoEntry == [present |-> FALSE, timestamp |-> 0, data |-> DlNone]
DlNoFile == [exists |-> FALSE, timestamp |-> 0, data |-> DlNone]

\* get_stock_prices: _generate_cache_key('prices', ticker, start=, end=);
\* get_stock_metrics: _generate_cache_key('metrics', ticker)
DlRequestKey(d, ticker) ==
    IF d = "prices"
    THEN GenerateCacheKey(ticker, << "end=" \o EndDate, "start=" \o StartDate >>)
    ELSE GenerateCacheKey(ticker, << >>)
DlKeys == { DlRequestKey(d, ticker) : d \in DataTypes, ticker \in Tickers }

\* DataLoader._optimize_memory: a narrowed copy
DlOptimizeMemory(df) ==
    IF ~dl_memory_optimization \/ df.kind = "empty" THEN df
    ELSE IF df.dtype = "float64" THEN [df EXCEPT !.dtype = "float32"]
    ELSE df

\* DataLoader._get_from_memory_cache: (hit, data)
GetFromMemoryCacheNeverHits(d, k) == << FALSE, DlNone >>

GetFromMemoryCache(d, k) ==
    IF ~dl_memory_cache_enabled THEN << FALSE, DlNone >>
    ELSE IF /\ dl_memory[d][k].present
            /\ now - dl_memory[d][k].timestamp <= dl_cache_timeout_days * SecondsPerDay
         THEN << TRUE, dl_memory[d][k].data >>
         ELSE << FALSE, DlNone >>

\* DataLoader._save_to_memory_cache
SaveToMemoryCache(mem, d, k, data) ==
    IF ~dl_memory_cache_enabled THEN mem
    ELSE [mem EXCEPT ![d][k] = [present |-> TRUE, timestamp |-> now, data |-> data]]

\* DataLoader._load_from_disk_cache: (hit, data)
DlLoadFromDiskNeverHits(d, k) == << FALSE, DlNone >>

DlLoadFromDisk(d, k) ==
    IF ~dl_disk_cache_enabled THEN << FALSE, DlNone >>
    ELSE IF ~dl_disk[d][k].exists THEN << FALSE, DlNone >>
    ELSE IF now - dl_disk[d][k].timestamp > dl_cache_timeout_days * SecondsPerDay
         THEN << FALSE, DlNone >>
         ELSE << TRUE, dl_disk[d][k].data >>

\* DataLoader._save_to_disk_cache
DlSaveToDisk(files, d, k, data) ==
    IF ~dl_disk_cache_enabled THEN files
    ELSE [files EXCEPT ![d][k] = [exists |-> TRUE, timestamp |-> now, data |-> data]]

DlNoFrame ==
    [op |-> "none", d |-> "none", ticker |-> "none", key |-> "none",
     data |-> DlNone, calls |-> 0]
DlGoto(t, label) == dl_pc' = [dl_pc EXCEPT ![t] = label]

\* get_stock_prices / get_stock_metrics, lines 336-343: the memory lookup.
\* `from` is where the caller stands when it makes the call.
DlGetMemory(t, from, d, ticker) ==
    LET k == DlRequestKey(d, ticker)
        got == GetFromMemoryCache(d, k)
    IN
    /\ dl_pc[t] = from
    /\ dl_frame' = [dl_frame EXCEPT ![t] =
            [op |-> "get", d |-> d, ticker |-> ticker, key |-> k,
             data |-> got[2], calls |-> 0]]
    /\ DlGoto(t, IF got[1] THEN "done" ELSE "get_disk")
    /\ UNCHANGED << dl_config, dl_memory, dl_disk >>

\* a lookup that gives up on a miss while another call is fetching the key
DlGetDiskCoalesced(t) ==
    LET got == DlLoadFromDisk(dl_frame[t].d, dl_frame[t].key)
        shared == \E v \in DlThreads \ {t} :
                      /\ dl_frame[v].key = dl_frame[t].key
                      /\ dl_pc[v] \in {"get_api", "get_save_memory", "get_save_disk"}
    IN
    /\ dl_pc[t] = "get_disk"
    /\ dl_frame' = [dl_frame EXCEPT ![t].data = got[2]]
    /\ DlGoto(t, IF got[1] THEN "get_promote"
                 ELSE IF shared THEN "done" ELSE "get_api")
    /\ UNCHANGED << dl_config, dl_memory, dl_disk >>

\* lines 345-347: the disk lookup
DlGetDisk(t) ==
    LET got == DlLoadFromDisk(dl_frame[t].d, dl_frame[t].key) IN
    /\ dl_pc[t] = "get_disk"
    /\ dl_frame' = [dl_frame EXCEPT ![t].data = got[2]]
    /\ DlGoto(t, IF got[1] THEN "get_promote" ELSE "get_api")
    /\ UNCHANGED << dl_config, dl_memory, dl_disk >>

\* lines 348-350: a disk hit is saved to the memory cache and returned
DlGetPromote(t) ==
    /\ dl_pc[t] = "get_promote"
    /\ dl_memory' = SaveToMemoryCache(dl_memory, dl_frame[t].d, dl_frame[t].key,
                                      dl_frame[t].data)
    /\ DlGoto(t, "done")
    /\ UNCHANGED << dl_config, dl_disk, dl_frame >>

\* a DataSource call whose empty frame is stored like any other frame
DlGetApiStoresEmpty(t, outcome) ==
    /\ dl_pc[t] = "get_api"
    /\ dl_frame' = [dl_frame EXCEPT
            ![t].calls = @ + 1,
            ![t].data = CASE outcome = "frame" -> DlOptimizeMemory(ApiFrame(dl_frame[t].ticker))
                          [] outcome = "empty" -> EmptyFrame
                          [] OTHER -> DlNone ]
    /\ DlGoto(t, IF outcome \in {"frame", "empty"} THEN "get_save_memory" ELSE "raised")
    /\ UNCHANGED << dl_config, dl_memory, dl_disk >>

\* lines 352-357 and 363: the DataSource call; it raises, returns an empty
\* frame (returned uncached) or a frame, which is optimised
DlGetApi(t, outcome) ==
    /\ dl_pc[t] = "get_api"
    /\ dl_frame' = [dl_frame EXCEPT
            ![t].calls = @ + 1,
            ![t].data = CASE outcome = "frame" -> DlOptimizeMemory(ApiFrame(dl_frame[t].ticker))
                          [] outcome = "empty" -> EmptyFrame
                          [] OTHER -> DlNone ]
    /\ DlGoto(t, CASE outcome = "frame" -> "get_save_memory"
                   [] outcome = "empty" -> "done"
                   [] OTHER -> "raised")
    /\ UNCHANGED << dl_config, dl_memory, dl_disk >>

\* line 360
DlGetSaveMemory(t) ==
    /\ dl_pc[t] = "get_save_memory"
    /\ dl_memory' = SaveToMemoryCache(dl_memory, dl_frame[t].d, dl_frame[t].key,
                                      dl_frame[t].data)
    /\ DlGoto(t, "get_save_disk")
    /\ UNCHANGED << dl_config, dl_disk, dl_frame >>

\* lines 361-363
DlGetSaveDisk(t) ==
    /\ dl_pc[t] = "get_save_disk"
    /\ dl_disk' = DlSaveToDisk(dl_disk, dl_frame[t].d, dl_frame[t].key, dl_frame[t].data)
    /\ DlGoto(t, "done")
    /\ UNCHANGED << dl_config, dl_memory, dl_frame >>

\* the steps of one get_stock_prices / get_stock_metrics call in progress
DlGetStep(t) ==
    \/ DlGetDisk(t)
    \/ DlGetPromote(t)
    \/ \E outcome \in ApiOutcomes : DlGetApi(t, outcome)
    \/ DlGetSaveMemory(t)
    \/ DlGetSaveDisk(t)

\* DataLoader.clear_cache(data_type, ticker), lines 458-537: the memory
\* cache is cleared under the lock whether or not it is enabled, the files
\* only when the disk cache is enabled
DlClearCache(t, data_type, ticker) ==
    /\ dl_pc[t] = "idle"
    /\ dl_memory' = [d \in DataTypes |-> [k \in DlKeys |->
            IF d \in ClearedTypes(data_type) /\ ClearedKey(k, ticker)
            THEN NoEntry ELSE dl_memory[d][k] ]]
    /\ dl_disk' = [d \in DataTypes |-> [k \in DlKeys |->
            IF dl_disk_cache_enabled /\ d \in ClearedTypes(data_type)
               /\ ClearedKey(k, ticker)
            THEN DlNoFile ELSE dl_disk[d][k] ]]
    /\ UNCHANGED << dl_config, dl_pc, dl_frame >>

\* DataLoader.__init__ on an empty cache root, nothing running
LoaderInit ==
    /\ dl_memory_cache_enabled \in BOOLEAN
    /\ dl_disk_cache_enabled \in BOOLEAN
    /\ dl_memory_optimization \in BOOLEAN
    /\ dl_cache_timeout_days \in TimeoutChoices
    /\ max_workers \in WorkerChoices
    /\ dl_memory = [d \in DataTypes |-> [k \in DlKeys |-> NoEntry]]
    /\ dl_disk = [d \in DataTypes |-> [k \in DlKeys |-> DlNoFile]]
    /\ dl_pc = [t \in DlThreads |-> "idle"]
    /\ dl_frame = [t \in DlThreads |-> DlNoFrame]
    /\ dl_lock = "none"
    /\ tickers = << >>
    /\ futures = << >>
    /\ result = << >>
    /\ dl_last = DlNoFrame

\* no DataLoader is in use
LoaderUnused ==
    /\ dl_memory_cache_enabled = TRUE
    /\ dl_disk_cache_enabled = TRUE
    /\ dl_memory_optimization = FALSE
    /\ dl_cache_timeout_days = DefaultTimeoutDays
    /\ max_workers = 1
    /\ dl_memory = [d \in DataTypes |-> [k \in DlKeys |-> NoEntry]]
    /\ dl_disk = [d \in DataTypes |-> [k \in DlKeys |-> DlNoFile]]
    /\ dl_pc = [t \in DlThreads |-> "idle"]
    /\ dl_frame = [t \in DlThreads |-> DlNoFrame]
    /\ dl_lock = "none"
    /\ tickers = << >>
    /\ futures = << >>
    /\ result = << >>
    /\ dl_last = DlNoFrame

\* a Cache that holds nothing, whatever its callers do
CacheEmpty ==
    /\ memory_cache_enabled = TRUE
    /\ disk_cache_enabled = TRUE
    /\ memory_optimization = TRUE
    /\ max_memory_items = MaxCapacity
    /\ cache_timeout_days = DefaultTimeoutDays
    /\ cache = [d \in DataTypes |-> << >>]
    /\ cache_hits = [d \in DataTypes |-> [k \in AllKeys |-> 0]]
    /\ disk = [d \in DataTypes |-> [k \in AllKeys |-> NoFile]]
    /\ lock = "none"
    /\ frame = [t \in Threads |-> NoFrame]
    /\ last = NoFrame
    /\ access_order = [d \in DataTypes |-> << >>]
    /\ evicted = {}
    /\ written_at = [k \in AllKeys |-> -1]

\* no Cache is in use
CacheUnused == CacheEmpty /\ pc = [t \in Threads |-> "idle"]

(***************************************************************************)
(* utils.DataLoader (src/src/utils/data_loader.py)                         *)
(***************************************************************************)
UtTimeoutDays == 7            \* cache_timeout_days: int = 7
UtMemoryOptimization == TRUE  \* memory_optimization: bool = True

\* what self.api.get_stock_prices returns for the identifier as passed
UtApiFrame(ticker) ==
    [kind |-> "frame", val |-> ticker, fetched_at |-> now, dtype |-> "float64"]

\* _generate_cache_key(ticker, start_date, end_date, data_type): the md5
\* digest of the joined text, different for different texts
UtGenerateCacheKey(ticker, data_type) ==
    "md5(" \o ticker \o "_" \o StartDate \o "_" \o EndDate \o "_" \o data_type \o ")"

\* a key that folds the case of the identifier
UtMemoryKeyFolded(ticker) == Lower(ticker) \o "_" \o UtGenerateCacheKey(Lower(ticker), "prices")

\* memory_cache_key = f"{ticker}_{prices_key}"
UtMemoryKey(ticker) == ticker \o "_" \o UtGenerateCacheKey(ticker, "prices")
UtMemoryKeys == { UtMemoryKey(ticker) : ticker \in Tickers }

\* os.path.join(cache_dir, ticker, f"{key}.pkl")
UtCacheFile(ticker) == ticker \o "/" \o UtGenerateCacheKey(ticker, "prices") \o ".pkl"
UtCacheFiles == { UtCacheFile(ticker) : ticker \in Tickers }

\* _is_cache_valid: the file exists and (now - mtime).days <= cache_timeout_days
IsCacheValid(f) ==
    /\ ut_files[f].exists
    /\ (now - ut_files[f].timestamp) \div SecondsPerDay <= UtTimeoutDays

\* _load_from_disk_cache: the pickled object, None when there is nothing to use
UtLoadFromDiskCache(ticker) ==
    IF ~ut_disk_cache_enabled THEN DlNone
    ELSE IF ~IsCacheValid(UtCacheFile(ticker)) THEN DlNone
    ELSE ut_files[UtCacheFile(ticker)].data

\* _optimize_dataframe_memory: float columns narrowed to float32
UtOptimizeDataframeMemory(df) ==
    IF ~UtMemoryOptimization \/ df.kind # "frame" THEN df
    ELSE IF df.dtype = "float64" THEN [df EXCEPT !.dtype = "float32"]
    ELSE df

UtThreads == {"main", "w1", "w2"}
UtNoFrame == [ticker |-> "", data |-> DlNone]
UtQueued == [state |-> "queued", ticker |-> "", data |-> DlNone]

\* no utils.DataLoader is in use
UtilsUnused ==
    /\ ut_disk_cache_enabled = TRUE
    /\ ut_max_workers = 1
    /\ memory_cache = [k \in UtMemoryKeys |-> NoEntry]
    /\ ut_files = [f \in UtCacheFiles |-> DlNoFile]
    /\ ut_pc = [t \in UtThreads |-> "absent"]
    /\ ut_frame = [t \in UtThreads |-> UtNoFrame]
    /\ ut_tickers = << >>
    /\ ut_futures = << >>
    /\ ut_result = << >>

\* utils.DataLoader.__init__: the arguments are stored, memory_cache starts
\* empty; the files of an earlier process may remain under cache_dir
UtilsInit ==
    /\ ut_disk_cache_enabled \in BOOLEAN
    /\ ut_max_workers \in WorkerChoices
    /\ memory_cache = [k \in UtMemoryKeys |-> NoEntry]
    /\ ut_files = [f \in UtCacheFiles |-> DlNoFile]
    /\ ut_pc = [t \in UtThreads |-> "idle"]
    /\ ut_frame = [t \in UtThreads |-> UtNoFrame]
    /\ ut_tickers = << >>
    /\ ut_futures = << >>
    /\ ut_result = << >>

\* no function is under evaluation
NoCall == args = << >> /\ ret = << >>

(***************************************************************************)
(* History kept beside the program state                                   *)
(***************************************************************************)
\* the key whose access counter a step raised (a read hit, a promotion or a
\* write) moves to the most-recent end; evicted and cleared keys are dropped
Touched(d, k) == cache_hits'[d][k] > cache_hits[d][k]
AccessOrderNext ==
    access_order' = [ d \in DataTypes |->
        LET kept == SelectSeq(access_order[d],
                        LAMBDA k : Has(cache'[d], k) /\ ~Touched(d, k))
        IN  IF \E k \in AllKeys : Touched(d, k)
            THEN Append(kept, CHOOSE k \in AllKeys : Touched(d, k))
            ELSE kept ]

EnforceStep(t) == pc[t] \in {"get_enforce", "set_enforce"} /\ pc'[t] # pc[t]
EvictedBy(t) == CacheKeys(cache[frame[t].d]) \ CacheKeys(cache'[frame[t].d])
EvictedNext(t) == evicted' = IF EnforceStep(t) THEN EvictedBy(t) ELSE evicted

WrittenAtNext(t) ==
    written_at' = IF pc[t] = "idle" /\ frame'[t].op = "set"
                  THEN [written_at EXCEPT ![frame'[t].key] = now]
                  ELSE written_at

Tracked ==
    /\ AccessOrderNext
    /\ EvictedNext("t1")
    /\ UNCHANGED << last, written_at, loader, call, utils >>
Returned == /\ last' = frame["t1"]
            /\ evicted' = {}
            /\ UNCHANGED << access_order, written_at, loader, call, utils >>

ClearTypes == {"None", "prices"}
ClearTickers == {"None", "AAPL"}

(***************************************************************************)
(* Spec: one caller of Cache                                               *)
(***************************************************************************)
SeqGetMemory == \E req \in Requests : GetMemory("t1", "prices", req) /\ Tracked
SeqGetDisk == GetDisk("t1") /\ Tracked
SeqGetPromote == GetPromote("t1") /\ Tracked
SeqEnforce == Enforce("t1") /\ Tracked
SeqSetMemory ==
    \E req \in Requests, data \in CachePayloads :
        SetMemory("t1", "prices", req, data) /\ Tracked
SeqSetDisk == SetDisk("t1") /\ Tracked
SeqClearCache ==
    \E dt \in ClearTypes, ticker \in ClearTickers :
        ClearCache("t1", dt, ticker) /\ Tracked
SeqReturn == Return("t1") /\ Returned

Init == CacheInit /\ LoaderUnused /\ UtilsUnused /\ NoCall /\ now = 0
Next ==
    \/ SeqGetMemory
    \/ SeqGetDisk
    \/ SeqGetPromote
    \/ SeqEnforce
    \/ SeqSetMemory
    \/ SeqSetDisk
    \/ SeqClearCache
    \/ SeqReturn
Spec == Init /\ [][Next]_vars

(***************************************************************************)
(* TtlSpec: one caller of Cache while time passes                          *)
(***************************************************************************)
Timed ==
    /\ WrittenAtNext("t1")
    /\ UNCHANGED << last, access_order, evicted, loader, call, utils >>

TtlGetMemory == \E req \in ConcRequests : GetMemory("t1", "prices", req) /\ Timed
TtlGetDisk == GetDisk("t1") /\ Timed
TtlGetPromote == GetPromote("t1") /\ Timed
TtlEnforce == Enforce("t1") /\ Timed
TtlSetMemory ==
    \E req \in ConcRequests, data \in CachePayloads :
        SetMemory("t1", "prices", req, data) /\ Timed
TtlSetDisk == SetDisk("t1") /\ Timed
TtlClearCache ==
    \E dt \in ClearTypes, ticker \in ClearTickers :
        ClearCache("t1", dt, ticker) /\ Timed
TtlReturn == Return("t1") /\ UNCHANGED << history, loader, call, utils >>
TtlTick == pc["t1"] = "idle" /\ Tick /\ UNCHANGED << history, loader, call, utils >>

TtlNext ==
    \/ TtlGetMemory
    \/ TtlGetDisk
    \/ TtlGetPromote
    \/ TtlEnforce
    \/ TtlSetMemory
    \/ TtlSetDisk
    \/ TtlClearCache
    \/ TtlReturn
    \/ TtlTick
TtlSpec == Init /\ [][TtlNext]_vars

(***************************************************************************)
(* ConcSpec: two concurrent callers of Cache                               *)
(***************************************************************************)
ConcGetMemory(t) ==
    \E req \in ConcRequests : GetMemory(t, "prices", req) /\ UNCHANGED << history, loader, call, utils >>
ConcGetDisk(t) == GetDisk(t) /\ UNCHANGED << history, loader, call, utils >>
ConcGetPromote(t) == GetPromote(t) /\ UNCHANGED << history, loader, call, utils >>
ConcEnforce(t) == Enforce(t) /\ UNCHANGED << history, loader, call, utils >>
ConcSetMemory(t) ==
    \E req \in ConcRequests, data \in CachePayloads :
        SetMemory(t, "prices", req, data) /\ UNCHANGED << history, loader, call, utils >>
ConcSetDisk(t) == SetDisk(t) /\ UNCHANGED << history, loader, call, utils >>
ConcClearCache(t) ==
    \E dt \in ClearTypes, ticker \in ClearTickers :
        ClearCache(t, dt, ticker) /\ UNCHANGED << history, loader, call, utils >>
ConcReturn(t) == Return(t) /\ UNCHANGED << history, loader, call, utils >>

ConcNext ==
    \E t \in Threads :
        \/ ConcGetMemory(t)
        \/ ConcGetDisk(t)
        \/ ConcGetPromote(t)
        \/ ConcEnforce(t)
        \/ ConcSetMemory(t)
        \/ ConcSetDisk(t)
        \/ ConcClearCache(t)
        \/ ConcReturn(t)
ConcSpec == Init /\ [][ConcNext]_vars

(***************************************************************************)
(* LoaderSpec: one caller of data.DataLoader, a clock, process restarts    *)
(***************************************************************************)
OnlyLoader == UNCHANGED << cache_vars, call, utils, now, batch, dl_last, dl_lock >>
LoaderReturned(f) == dl_last' = f /\ UNCHANGED << cache_vars, call, utils, batch, dl_lock >>
Marker(op) == [DlNoFrame EXCEPT !.op = op]

\* the identifiers read one at a time: two spellings of one symbol
LoaderTickers == {"AAPL", "aapl"}

LdGetPrices == \E ticker \in LoaderTickers : DlGetMemory("main", "idle", "prices", ticker) /\ OnlyLoader
LdGetMetrics == DlGetMemory("main", "idle", "metrics", "AAPL") /\ OnlyLoader
LdGetDisk == DlGetDisk("main") /\ OnlyLoader
LdGetPromote == DlGetPromote("main") /\ OnlyLoader
LdGetApi == \E outcome \in ApiOutcomes : DlGetApi("main", outcome) /\ OnlyLoader
LdGetSaveMemory == DlGetSaveMemory("main") /\ OnlyLoader
LdGetSaveDisk == DlGetSaveDisk("main") /\ OnlyLoader

\* the call returns its frame, or the DataSource's exception propagates
LdReturn ==
    /\ dl_pc["main"] \in {"done", "raised"}
    /\ DlGoto("main", "idle")
    /\ dl_frame' = [dl_frame EXCEPT !["main"] = DlNoFrame]
    /\ LoaderReturned([dl_frame["main"] EXCEPT
                          !.op = IF dl_pc["main"] = "raised" THEN "raised" ELSE "get"])
    /\ UNCHANGED << dl_config, dl_memory, dl_disk, now >>

LdTick ==
    /\ dl_pc["main"] = "idle"
    /\ ClockAdvance
    /\ LoaderReturned(Marker("tick"))
    /\ UNCHANGED << dl_config, dl_memory, dl_disk, dl_pc, dl_frame >>

\* the process ends and a new one constructs a DataLoader with the same
\* arguments on the same cache root: the class-level memory cache starts
\* empty, the files remain
LdRestart ==
    /\ dl_pc["main"] = "idle"
    /\ dl_memory' = [d \in DataTypes |-> [k \in DlKeys |-> NoEntry]]
    /\ LoaderReturned(Marker("restart"))
    /\ UNCHANGED << dl_config, dl_disk, dl_pc, dl_frame, now >>

\* the caller assigns the tier switches of the instance, as
\* test_disk_cache does with memory_cache_enabled
LdConfigure ==
    /\ dl_pc["main"] = "idle"
    /\ dl_memory_cache_enabled' \in BOOLEAN
    /\ dl_disk_cache_enabled' \in BOOLEAN
    /\ << dl_memory_cache_enabled', dl_disk_cache_enabled' >> #
           << dl_memory_cache_enabled, dl_disk_cache_enabled >>
    /\ LoaderReturned(Marker("configure"))
    /\ UNCHANGED << dl_memory_optimization, dl_cache_timeout_days, max_workers,
                    dl_memory, dl_disk, dl_pc, dl_frame, now >>

\* clear_cache called between two reads
LdClearCache ==
    \E data_type \in ClearTypes, ticker \in ClearTickers :
        /\ DlClearCache("main", data_type, ticker)
        /\ LoaderReturned([Marker("clear") EXCEPT !.d = data_type, !.ticker = ticker])
        /\ UNCHANGED now

\* single reads start no pool
LoaderSpecInit == LoaderInit /\ max_workers = 1 /\ CacheUnused /\ UtilsUnused /\ NoCall /\ now = 0
LoaderNext ==
    \/ LdGetPrices
    \/ LdGetMetrics
    \/ LdGetDisk
    \/ LdGetPromote
    \/ LdGetApi
    \/ LdGetSaveMemory
    \/ LdGetSaveDisk
    \/ LdReturn
    \/ LdTick
    \/ LdRestart
    \/ LdConfigure
    \/ LdClearCache
LoaderSpec == LoaderSpecInit /\ [][LoaderNext]_vars

\* RestartSpec: the same caller when the tier switches stay as constructed
RestartNext ==
    \/ LdGetPrices
    \/ LdGetMetrics
    \/ LdGetDisk
    \/ LdGetPromote
    \/ LdGetApi
    \/ LdGetSaveMemory
    \/ LdGetSaveDisk
    \/ LdReturn
    \/ LdTick
    \/ LdRestart
RestartSpec == LoaderSpecInit /\ [][RestartNext]_vars

(***************************************************************************)
(* BatchSpec: data.DataLoader.load_stocks_data and its worker pool         *)
(***************************************************************************)
Batches ==
    { << >>, << "AAPL" >>, << "AAPL", "MSFT" >>, << "aapl", "AAPL" >>,
      << "MSFT", "AAPL", "aapl" >> }

Missing == [kind |-> "missing", val |-> "", fetched_at |-> 0, dtype |-> "none"]
NoResult == [x \in Tickers |-> Missing]
Queued == [state |-> "queued", raised |-> FALSE, data |-> DlNone, ret |-> DlNone]

Min(a, b) == IF a < b THEN a ELSE b
\* a pool with one thread per task
PoolSizeUnbounded == Len(tickers)

\* ThreadPoolExecutor(max_workers=min(self.max_workers, len(tickers)))
PoolSize == Min(max_workers, Len(tickers))
Pool == { WorkerSeq[i] : i \in 1..Min(PoolSize, Len(WorkerSeq)) }

\* _load_stock_data, lines 427-433: what the task returns for its ticker
TaskReturnOmits(raised, df) == IF raised THEN Missing ELSE df

TaskReturn(raised, df) == IF raised THEN EmptyFrame ELSE df

FirstIn(state) == CHOOSE i \in 1..Len(futures) :
    /\ futures[i].state = state
    /\ \A j \in 1..(i - 1) : futures[j].state # state
RunningOn(w) == CHOOSE i \in 1..Len(futures) : futures[i].state = w

OnlyBatch == UNCHANGED << cache_vars, call, utils, now, dl_last, dl_lock >>

\* lines 415-424 and 436-438: the call; an empty list returns at once, one
\* ticker is fetched by the caller itself, otherwise one task per ticker is
\* submitted to the pool; ThreadPoolExecutor raises ValueError when it is
\* asked for no thread or a negative number of threads
BtCall ==
    \E list \in Batches :
        /\ dl_pc["main"] = "idle"
        /\ tickers' = list
        /\ result' = NoResult
        /\ futures' = IF Len(list) >= 2 /\ Min(max_workers, Len(list)) > 0
                       THEN [i \in 1..Len(list) |-> Queued] ELSE << >>
        /\ DlGoto("main", CASE Len(list) = 0 -> "batch_done"
                            [] Len(list) = 1 -> "single"
                            [] Min(max_workers, Len(list)) <= 0 -> "batch_raised"
                            [] OTHER -> "collect")
        /\ UNCHANGED << dl_config, dl_memory, dl_disk, dl_frame >>
        /\ OnlyBatch

\* line 423: get_stock_prices called by the caller itself
BtSingleGet ==
    /\ DlGetMemory("main", "single", "prices", tickers[1])
    /\ UNCHANGED batch
    /\ OnlyBatch

BtSingleStep == DlGetStep("main") /\ UNCHANGED batch /\ OnlyBatch

\* lines 423-424: the frame is stored and returned; an exception of
\* get_stock_prices leaves load_stocks_data
BtSingleReturn ==
    /\ Len(tickers) = 1
    /\ dl_pc["main"] \in {"done", "raised"}
    /\ IF dl_pc["main"] = "done"
       THEN /\ result' = [result EXCEPT ![tickers[1]] = dl_frame["main"].data]
            /\ DlGoto("main", "batch_done")
       ELSE /\ DlGoto("main", "batch_raised")
            /\ UNCHANGED result
    /\ dl_frame' = [dl_frame EXCEPT !["main"] = DlNoFrame]
    /\ UNCHANGED << dl_config, dl_memory, dl_disk, tickers, futures >>
    /\ OnlyBatch

\* a pool thread takes the oldest queued task and enters get_stock_prices
BtTaskStart(w) ==
    /\ w \in Pool
    /\ dl_pc["main"] = "collect"
    /\ \E i \in 1..Len(futures) : futures[i].state = "queued"
    /\ LET i == FirstIn("queued") IN
        /\ futures' = [futures EXCEPT ![i].state = w]
        /\ DlGetMemory(w, "idle", "prices", tickers[i])
    /\ UNCHANGED << tickers, result >>
    /\ OnlyBatch

BtTaskStep(w) == DlGetStep(w) /\ UNCHANGED batch /\ OnlyBatch

\* lines 428-433: the task returns (ticker, df), or (ticker, pd.DataFrame())
\* when get_stock_prices raised
BtTaskFinish(w) ==
    /\ dl_pc[w] \in {"done", "raised"}
    /\ LET i == RunningOn(w)
           raised == dl_pc[w] = "raised"
       IN futures' = [futures EXCEPT ![i] =
              [state |-> "done", raised |-> raised, data |-> dl_frame[w].data,
               ret |-> TaskReturn(raised, dl_frame[w].data)]]
    /\ DlGoto(w, "idle")
    /\ dl_frame' = [dl_frame EXCEPT ![w] = DlNoFrame]
    /\ UNCHANGED << dl_config, dl_memory, dl_disk, tickers, result >>
    /\ OnlyBatch

\* a future whose result is taken without waiting
FutureReadyAlways(f) == TRUE

\* future.result() returns once the task has finished
FutureReady(f) == f.state = "done"

\* lines 441-444: future.result() of the next future, in submission order
BtCollect ==
    /\ dl_pc["main"] = "collect"
    /\ \E i \in 1..Len(futures) : futures[i].state # "collected"
    /\ LET i == CHOOSE i \in 1..Len(futures) :
                    /\ futures[i].state # "collected"
                    /\ \A j \in 1..(i - 1) : futures[j].state = "collected"
       IN /\ FutureReady(futures[i])
          /\ result' = [result EXCEPT ![tickers[i]] = futures[i].ret]
          /\ futures' = [futures EXCEPT ![i].state = "collected"]
    /\ UNCHANGED << dl_config, dl_memory, dl_disk, dl_pc, dl_frame, tickers >>
    /\ OnlyBatch

\* line 448: every future was collected, the pool is shut down
BtReturn ==
    /\ dl_pc["main"] = "collect"
    /\ \A i \in 1..Len(futures) : futures[i].state = "collected"
    /\ DlGoto("main", "batch_done")
    /\ UNCHANGED << dl_config, dl_memory, dl_disk, dl_frame, batch >>
    /\ OnlyBatch

\* the caller takes the map (or the exception) and may call again
BtNext ==
    /\ dl_pc["main"] \in {"batch_done", "batch_raised"}
    /\ DlGoto("main", "idle")
    /\ tickers' = << >>
    /\ futures' = << >>
    /\ result' = << >>
    /\ UNCHANGED << dl_config, dl_memory, dl_disk, dl_frame >>
    /\ OnlyBatch

BatchInit == LoaderInit /\ CacheUnused /\ UtilsUnused /\ NoCall /\ now = 0
BatchNext ==
    \/ BtCall
    \/ BtSingleGet
    \/ BtSingleStep
    \/ BtSingleReturn
    \/ \E w \in DlThreads \ {"main"} :
        \/ BtTaskStart(w)
        \/ BtTaskStep(w)
        \/ BtTaskFinish(w)
    \/ BtCollect
    \/ BtReturn
    \/ BtNext
BatchSpec == BatchInit /\ [][BatchNext]_vars

(***************************************************************************)
(* Claims about Cache                                                      *)
(***************************************************************************)
Prices == cache["prices"]
PricesHits == cache_hits["prices"]
GetReturned(t) == pc[t] = "done" /\ frame[t].op = "get"

\* C1 (Spec): with at least one tier enabled, a set_X(K, v) followed
\* immediately by get_X(K) returns v (the payload as stored), never None,
\* for every capacity >= 1, memory-only or memory+disk.
C1_ReadAfterWrite ==
    ( /\ GetReturned("t1")
      /\ last.op = "set"
      /\ last.d = frame["t1"].d
      /\ last.key = frame["t1"].key )
    => frame["t1"].data = last.data

\* C5 (ConcSpec): whenever no thread holds the cache lock, every memory
\* table holds at most max_memory_items entries, under any interleaving of
\* set_X and promoting get_X calls.
C5_MemoryBounded ==
    lock = "none" => \A d \in DataTypes : Len(cache[d]) <= max_memory_items

\* C5 witness: a promotion by one caller was evicted again by its own
\* capacity enforcement while the other caller is in the middle of a set_X.
C5_Witness ==
    /\ lock = "none"
    /\ Len(Prices) = max_memory_items
    /\ GetReturned("t1")
    /\ frame["t1"].data # NoData
    /\ ~Has(Prices, frame["t1"].key)
    /\ memory_cache_enabled
    /\ pc["t2"] = "set_disk"

\* C6 (Spec): _enforce_memory_limits evicts exactly (size - capacity)
\* entries when the table exceeds capacity (none otherwise), the evicted
\* entries have the lowest access counters (counter(a) <= counter(b) for
\* every evicted a and retained b, at eviction time), and the retained
\* entries are untouched; so a cold entry is evicted before any hotter one.
C6_EvictLowestCounters ==
    [][ EnforceStep("t1") =>
           LET d == frame["t1"].d
               size == Len(cache[d])
               gone == EvictedBy("t1")
           IN  /\ Cardinality(gone) =
                      IF size > max_memory_items THEN size - max_memory_items ELSE 0
               /\ \A a \in gone : \A b \in CacheKeys(cache'[d]) :
                      cache_hits[d][a] <= cache_hits[d][b]
               /\ cache'[d] = CacheDel(cache[d], gone)
               /\ \A a \in gone : cache_hits'[d][a] = 0
               /\ \A b \in CacheKeys(cache'[d]) : cache_hits'[d][b] = cache_hits[d][b]
      ]_vars

\* C6 witness: with capacity 2, a write evicted a cold entry written earlier
\* and kept the entry just written beside an entry that had been re-read.
C6_Witness ==
    /\ pc["t1"] = "set_disk"
    /\ max_memory_items = 2
    /\ Cardinality(evicted) = 1
    /\ Has(Prices, frame["t1"].key)
    /\ PricesHits[frame["t1"].key] = 1
    /\ \E b \in CacheKeys(Prices) : PricesHits[b] >= 2

\* C7 (Spec): eviction follows last-access order: an evicted key was not
\* accessed more recently than any retained key; in particular the entry
\* being written is not evicted while an older-accessed entry is retained.
Position(order, k) == CHOOSE i \in 1..Len(order) : order[i] = k
C7_EvictLeastRecentlyUsed ==
    [][ EnforceStep("t1") =>
           LET d == frame["t1"].d IN
           \A a \in EvictedBy("t1") : \A b \in CacheKeys(cache'[d]) :
               Position(access_order[d], a) < Position(access_order[d], b)
      ]_vars

\* C9 (TtlSpec): every read is checked against the TTL: get_X never returns
\* an entry written more than cache_timeout_days ago.
C9_NoStaleRead ==
    ( GetReturned("t1") /\ frame["t1"].data # NoData )
    => now - written_at[frame["t1"].key] <= cache_timeout_days * SecondsPerDay


(***************************************************************************)
(* Claims about data.DataLoader                                            *)
(***************************************************************************)
Caller == dl_frame["main"]
CallReturned == dl_pc["main"] = "done"
Ttl == dl_cache_timeout_days * SecondsPerDay

\* the step in which the caller enters get_stock_prices / get_stock_metrics
CallStarts == dl_pc["main"] = "idle" /\ dl_pc'["main"] # "idle" /\ Caller'.op = "get"
MemoryEntry(f) == dl_memory[f.d][f.key]
DiskFile(f) == dl_disk[f.d][f.key]

\* C2: a read whose key has an unexpired entry in the enabled memory tier
\* returns that entry's payload without calling the DataSource; and when a
\* request fetched a frame with the memory tier on, repeating it at once
\* returns the same frame with no further call (one call in total).
C2_MemoryHitSkipsSource ==
    /\ [][ (/\ CallStarts
            /\ dl_memory_cache_enabled
            /\ MemoryEntry(Caller').present
            /\ now - MemoryEntry(Caller').timestamp <= Ttl)
           => /\ dl_pc'["main"] = "done"
              /\ Caller'.key = DlRequestKey(Caller'.d, Caller'.ticker)
              /\ Caller'.data = MemoryEntry(Caller').data
              /\ Caller'.calls = 0 ]_vars
    /\ [](  (/\ CallReturned
             /\ dl_memory_cache_enabled
             /\ dl_last.op = "get" /\ dl_last.calls = 1 /\ dl_last.data.kind = "frame"
             /\ dl_last.d = Caller.d /\ dl_last.ticker = Caller.ticker)
            => (Caller.calls = 0 /\ Caller.data = dl_last.data) )

C2_Witness ==
    /\ CallReturned
    /\ dl_memory_cache_enabled /\ ~dl_disk_cache_enabled
    /\ dl_last.op = "get" /\ dl_last.calls = 1 /\ dl_last.data.kind = "frame"
    /\ dl_last.d = "metrics" /\ Caller.d = "metrics" /\ dl_last.ticker = Caller.ticker
    /\ Caller.calls = 0 /\ Caller.data = dl_last.data

\* C8: a frame returned by get_stock_prices / get_stock_metrics was fetched
\* from the DataSource at most cache_timeout_days ago.
C8_NoExpiredPayload ==
    (CallReturned /\ Caller.data.kind = "frame")
        => now - Caller.data.fetched_at <= Ttl

\* C10: a read that missed the memory tier (empty after a restart, or
\* disabled) and finds an unexpired file on the enabled disk tier returns the
\* frame that was fetched and written, without calling the DataSource.
C10_DiskRoundTrip ==
    [][ /\ (/\ dl_pc["main"] = "get_disk" /\ dl_pc'["main"] # "get_disk"
            /\ dl_disk_cache_enabled
            /\ DiskFile(Caller).exists
            /\ now - DiskFile(Caller).timestamp <= Ttl)
           => /\ dl_pc'["main"] = "get_promote"
              /\ Caller'.data = DiskFile(Caller).data
              /\ Caller'.data.kind = "frame"
              /\ Caller'.data.val = Lower(Caller.ticker)
              /\ Caller'.data.fetched_at = DiskFile(Caller).timestamp
              /\ Caller'.calls = 0
        /\ (dl_pc["main"] = "get_promote" /\ dl_pc'["main"] # "get_promote")
           => /\ dl_pc'["main"] = "done"
              /\ Caller' = Caller
              /\ dl_disk' = dl_disk ]_vars

C10_Witness ==
    /\ CallReturned
    /\ dl_last.op = "restart"
    /\ now = SecondsPerDay /\ dl_cache_timeout_days = 1
    /\ Caller.calls = 0
    /\ Caller.data.kind = "frame" /\ Caller.data.fetched_at = 0
    /\ Caller.data = DiskFile(Caller).data

BatchReturned == dl_pc["main"] = "batch_done"
BatchRaised == dl_pc["main"] = "batch_raised"

\* C3: a batch of two or more identifiers never raises, and when it returns
\* every identifier has an entry: the frame its fetch returned, or an empty
\* frame when its fetch raised, whatever the other fetches did.
C3_BatchIsolatesFailures ==
    Len(tickers) >= 2 =>
        /\ ~BatchRaised
        /\ BatchReturned =>
            \A i \in 1..Len(tickers) :
                /\ futures[i].state = "collected"
                /\ result[tickers[i]] # Missing
                /\ (\A j \in (i + 1)..Len(tickers) : tickers[j] # tickers[i]) =>
                     result[tickers[i]] =
                        IF futures[i].raised THEN EmptyFrame ELSE futures[i].data
                /\ ~futures[i].raised =>
                     \/ futures[i].data = EmptyFrame
                     \/ /\ futures[i].data.kind = "frame"
                        /\ futures[i].data.val = Lower(tickers[i])

C3_Witness ==
    /\ BatchReturned
    /\ Len(tickers) = 3
    /\ futures[2].raised /\ result[tickers[2]] = EmptyFrame
    /\ ~futures[1].raised /\ result[tickers[1]].kind = "frame"
    /\ ~futures[3].raised /\ result[tickers[3]].kind = "frame"

\* C4: a batch of exactly one identifier never raises.
C4_SingleNeverRaises == Len(tickers) = 1 => ~BatchRaised

(***************************************************************************)
(* KeySpec: _generate_cache_key evaluated on its own                       *)
(***************************************************************************)
\* keyword parameters as the dict **params: (name, value) pairs in the order
\* the caller supplied them; the values include text with '_' and '=' and
\* one long enough to take the hashed branch
ParamNames == {"end", "start"}
LongValue ==
    "xxxxxxxxxxxxxxxxxxxxxxxxxxxxxxxxxxxxxxxxxxxxxxxxxxxxxxxxxxxxxxxxxxxxxxxxxxxxxxxxxxxxxxxxxxxxxxxxxxxx"
ParamValues == {"1", "2", "1_start=2", LongValue}
ParamItems == ParamNames \X ParamValues
ParamDicts ==
    { << >> }
    \cup { << i >> : i \in ParamItems }
    \cup { << i, j >> : << i, j >> \in { q \in ParamItems \X ParamItems : q[1][1] # q[2][1] } }

\* the code point of a character of the texts above
CharRank(c) ==
    CASE c = "1" -> 49 [] c = "2" -> 50 [] c = "=" -> 61 [] c = "_" -> 95
      [] c = "a" -> 97 [] c = "d" -> 100 [] c = "e" -> 101 [] c = "n" -> 110
      [] c = "r" -> 114 [] c = "s" -> 115 [] c = "t" -> 116 [] c = "x" -> 120

\* str < str: lexicographic by code point
RECURSIVE StrLess(_, _)
StrLess(s, t) ==
    IF Len(t) = 0 THEN FALSE
    ELSE IF Len(s) = 0 THEN TRUE
    ELSE LET a == CharRank(SubSeq(s, 1, 1))
             b == CharRank(SubSeq(t, 1, 1))
         IN  IF a # b THEN a < b
             ELSE StrLess(SubSeq(s, 2, Len(s)), SubSeq(t, 2, Len(t)))

\* [f"{k}={v}" for k, v in params.items()]
RenderParams(params) == [i \in 1..Len(params) |-> params[i][1] \o "=" \o params[i][2]]

\* sorted(...) of at most two texts
UnsortedTexts(texts) == texts

SortedTexts(texts) ==
    IF Len(texts) = 2 /\ StrLess(texts[2], texts[1])
    THEN << texts[2], texts[1] >> ELSE texts

\* _generate_cache_key(data_type, ticker, **params)
KeyOf(ticker, params) == GenerateCacheKey(ticker, SortedTexts(RenderParams(params)))
Request(ticker, params) == [ticker |-> ticker, params |-> params]

\* one more evaluation; the state keeps the last two
KeyGenerate ==
    \E ticker \in Tickers, params \in ParamDicts :
        /\ args' = IF Len(args) = 0
                   THEN << Request(ticker, params) >>
                   ELSE << args[Len(args)], Request(ticker, params) >>
        /\ ret' = IF Len(ret) = 0
                  THEN << KeyOf(ticker, params) >>
                  ELSE << ret[Len(ret)], KeyOf(ticker, params) >>
        /\ UNCHANGED << cache_vars, now, loader, utils >>

KeyInit == CacheUnused /\ LoaderUnused /\ UtilsUnused /\ NoCall /\ now = 0
KeyNext == KeyGenerate
KeySpec == KeyInit /\ [][KeyNext]_vars

\* the mapping a dict denotes, whatever the order of its items
ParamSet(params) == { params[i] : i \in 1..Len(params) }
TwoKeys == Len(args) = 2

\* C11: two requests for one identifier whose parameter mappings differ get
\* different keys.
C11_DistinctParamsDistinctKeys ==
    (/\ TwoKeys
     /\ args[1].ticker = args[2].ticker
     /\ ParamSet(args[1].params) # ParamSet(args[2].params))
        => ret[1] # ret[2]

\* C12: the key is the same for any order in which the parameters are
\* supplied and any letter case of the identifier, on the plain and on the
\* hashed branch.
C12_KeyNormalising ==
    (/\ TwoKeys
     /\ Lower(args[1].ticker) = Lower(args[2].ticker)
     /\ ParamSet(args[1].params) = ParamSet(args[2].params))
        => ret[1] = ret[2]

Hashed(ticker, params) ==
    Len(Lower(ticker) \o JoinParams(SortedTexts(RenderParams(params)))) > KeyHashThreshold

C12_Witness ==
    /\ TwoKeys
    /\ args[1].ticker = "AAPL" /\ args[2].ticker = "aapl"
    /\ Len(args[1].params) = 2
    /\ args[2].params = << args[1].params[2], args[1].params[1] >>
    /\ Hashed(args[1].ticker, args[1].params)
    /\ ret[1] = ret[2]

\* C13: right after clear_cache(data_type, ticker) of data.DataLoader no
\* entry of the cleared domains whose key begins with the identifier is
\* left, in memory or on disk (every entry when no identifier is given).
C13_ClearEmptiesBothTiers ==
    (dl_pc["main"] = "idle" /\ dl_last.op = "clear") =>
        \A d \in ClearedTypes(dl_last.d), k \in DlKeys :
            ClearedKey(k, dl_last.ticker) =>
                /\ ~dl_memory[d][k].present
                /\ ~dl_disk[d][k].exists

(***************************************************************************)
(* FaultSpec: one caller of Cache whose disk operations may fail           *)
(***************************************************************************)
Untracked == UNCHANGED << history, loader, call, utils >>
FltGetDiskFails == GetDiskFails("t1") /\ Untracked
FltSetDiskFails == \E how \in WriteFailures : SetDiskFails("t1", how) /\ Untracked

FaultNext ==
    \/ ConcGetMemory("t1")
    \/ ConcGetDisk("t1")
    \/ FltGetDiskFails
    \/ ConcGetPromote("t1")
    \/ ConcEnforce("t1")
    \/ ConcSetMemory("t1")
    \/ ConcSetDisk("t1")
    \/ FltSetDiskFails
    \/ ConcClearCache("t1")
    \/ ConcReturn("t1")
FaultSpec == Init /\ [][FaultNext]_vars

\* C14: a disk operation that fails does not reach the caller: the failing
\* read returns None as a miss would, the failing write leaves the files as
\* they were, and neither undoes what the call stored in the memory tier.
C14_DiskFailuresContained ==
    [][ /\ GetDiskFails("t1") =>
            /\ pc'["t1"] = "done"
            /\ frame'["t1"].data = NoData
            /\ cache' = cache
        /\ \A how \in WriteFailures : SetDiskFails("t1", how) =>
            /\ pc'["t1"] = "done"
            /\ disk' = disk
            /\ cache' = cache ]_vars

(***************************************************************************)
(* ConstructSpec: Cache.__init__ step by step                              *)
(***************************************************************************)
\* whether mkdir of the cache root and of the domain subdirectories succeeds
Environments == { [dirs_creatable |-> b] : b \in BOOLEAN }
DirsCreatable == args[1].dirs_creatable

\* self.logger is assigned on line 98, after _create_cache_directories()
\* (line 76) has returned
LoggerAssigned == pc["t1"] \notin {"new", "mkdir", "log_debug", "except", "init_raised"}

CtorIdle ==
    UNCHANGED << cache, cache_hits, disk, lock, now, frame, history, loader, utils >>

\* lines 63-76: the arguments are stored, _create_cache_directories is entered
CtorBegin ==
    /\ pc["t1"] = "new"
    /\ Goto("t1", "mkdir")
    /\ UNCHANGED << config, call >> /\ CtorIdle

\* lines 102-108: the mkdir calls
CtorMkdir ==
    /\ pc["t1"] = "mkdir"
    /\ Goto("t1", IF DirsCreatable THEN "log_debug" ELSE "except")
    /\ UNCHANGED << config, call >> /\ CtorIdle

\* line 110: self.logger.debug(...); without the attribute it raises
\* AttributeError inside the try block. Otherwise lines 79-98 complete
\* the construction.
CtorLogDebug ==
    /\ pc["t1"] = "log_debug"
    /\ IF LoggerAssigned
       THEN Goto("t1", "idle") /\ ret' = << "constructed" >>
       ELSE Goto("t1", "except") /\ UNCHANGED ret
    /\ UNCHANGED << config, args >> /\ CtorIdle

\* lines 111-113: except Exception: self.logger.error(...), then
\* self.disk_cache_enabled = False; an exception of line 112 leaves __init__
CtorExcept ==
    /\ pc["t1"] = "except"
    /\ IF LoggerAssigned
       THEN /\ disk_cache_enabled' = FALSE
            /\ Goto("t1", "idle")
            /\ ret' = << "constructed" >>
       ELSE /\ Goto("t1", "init_raised")
            /\ ret' = << "AttributeError" >>
            /\ UNCHANGED disk_cache_enabled
    /\ UNCHANGED << memory_cache_enabled, memory_optimization, max_memory_items,
                    cache_timeout_days, args >>
    /\ CtorIdle

ConstructInit ==
    /\ memory_cache_enabled \in BOOLEAN
    /\ disk_cache_enabled \in BOOLEAN
    /\ memory_optimization \in BOOLEAN
    /\ max_memory_items \in 1..MaxCapacity
    /\ cache_timeout_days \in TimeoutChoices
    /\ cache = [d \in DataTypes |-> << >>]
    /\ cache_hits = [d \in DataTypes |-> [k \in AllKeys |-> 0]]
    /\ disk = [d \in DataTypes |-> [k \in AllKeys |-> NoFile]]
    /\ lock = "none"
    /\ pc = [t \in Threads |-> IF t = "t1" THEN "new" ELSE "idle"]
    /\ frame = [t \in Threads |-> NoFrame]
    /\ last = NoFrame
    /\ access_order = [d \in DataTypes |-> << >>]
    /\ evicted = {}
    /\ written_at = [k \in AllKeys |-> -1]
    /\ \E env \in Environments : args = << env >>
    /\ ret = << >>
    /\ LoaderUnused
    /\ UtilsUnused
    /\ now = 0
ConstructNext ==
    \/ CtorBegin
    \/ CtorMkdir
    \/ CtorLogDebug
    \/ CtorExcept
ConstructSpec == ConstructInit /\ [][ConstructNext]_vars

\* C15: when the directories cannot be created the constructor of Cache
\* completes without raising and leaves disk_cache_enabled = False.
C15_ConstructorFailsOpen ==
    ~DirsCreatable =>
        /\ pc["t1"] # "init_raised"
        /\ pc["t1"] = "idle" => ~disk_cache_enabled

\* C16: a get_X that missed the memory tier and promotes what it loaded from
\* disk does not replace a value that a set_X stored in memory for the key
\* in between.
C16_PromotionKeepsNewerValue ==
    [][ \A t \in Threads :
          (/\ pc[t] = "get_promote" /\ pc'[t] = "get_enforce"
           /\ Has(cache[frame[t].d], frame[t].key))
          => CacheGet(cache'[frame[t].d], frame[t].key)
               = CacheGet(cache[frame[t].d], frame[t].key) ]_vars

(***************************************************************************)
(* WriteSpec: two callers of Cache, the file write in its two stages       *)
(***************************************************************************)
WrDiskOpen(t) == SetDiskOpen(t) /\ Untracked
WrDiskSkipped(t) == SetDiskSkipped(t) /\ Untracked

\* the completed file write is noted in written_at
WrDiskDump(t) ==
    /\ SetDiskDump(t)
    /\ written_at' = [written_at EXCEPT ![frame[t].key] = now]
    /\ UNCHANGED << last, access_order, evicted, loader, call, utils >>

WriteNext ==
    \E t \in Threads :
        \/ ConcGetMemory(t)
        \/ ConcGetDisk(t)
        \/ ConcGetPromote(t)
        \/ ConcEnforce(t)
        \/ ConcSetMemory(t)
        \/ WrDiskOpen(t)
        \/ WrDiskDump(t)
        \/ WrDiskSkipped(t)
        \/ ConcReturn(t)
WriteSpec == Init /\ [][WriteNext]_vars

\* C17: once an entry of a key has been written completely, a reader of
\* the disk tier finds a complete entry of that key (the previous one or the
\* new one), never the file of a write that is under way.
C17_AtomicDiskWrite ==
    [][ \A t \in Threads :
          (/\ pc[t] = "get_disk" /\ pc'[t] # "get_disk"
           /\ disk_cache_enabled
           /\ written_at[frame[t].key] >= 0)
          => /\ disk[frame[t].d][frame[t].key].data.kind # "truncated"
             /\ frame'[t].data # NoData ]_vars

\* the pool threads inside a task, and the tasks being run
BusyWorkers == { w \in DlThreads \ {"main"} : dl_pc[w] # "idle" }
RunningTasks == { i \in 1..Len(futures) : futures[i].state \in DlThreads }

\* C18: during a batch of n >= 2 identifiers at most min(max_workers, n)
\* tasks run at the same time, on at most that many pool threads.
C18_BoundedWorkers ==
    /\ Cardinality(RunningTasks) <= Min(max_workers, Len(tickers))
    /\ Cardinality(BusyWorkers) <= Min(max_workers, Len(tickers))
    /\ Cardinality(BusyWorkers) = Cardinality(RunningTasks)

C18_Witness ==
    /\ Len(tickers) = 3 /\ max_workers = 1
    /\ Cardinality(RunningTasks) = 1
    /\ \E i \in 1..Len(futures) : futures[i].state = "queued"

\* C19: when load_stocks_data returns from a batch of two or more
\* identifiers, every task has finished, no pool thread is inside a task
\* and the map holds what each task returned.
C19_JoinBeforeReturn ==
    (BatchReturned /\ Len(tickers) >= 2) =>
        /\ BusyWorkers = {}
        /\ \A i \in 1..Len(tickers) :
            /\ futures[i].state = "collected"
            /\ \E j \in i..Len(tickers) :
                tickers[j] = tickers[i] /\ result[tickers[i]] = futures[j].ret
            /\ result[tickers[i]] \notin {Missing, DlNone}

C19_Witness ==
    /\ BatchReturned
    /\ Len(tickers) = 3 /\ max_workers = 2
    /\ BusyWorkers = {}
    /\ \A i \in 1..3 : futures[i].state = "collected" /\ futures[i].data.kind = "frame"

(***************************************************************************)
(* DetSpec: load_stocks_data with the fetch outcome of every identifier    *)
(* fixed when the batch starts                                             *)
(***************************************************************************)
\* args[1]: the outcome the DataSource has for each identifier of the batch
\* and the two cache tiers as they are when load_stocks_data is called
Outcome(ticker) == args[1].outcomes[ticker]
OutcomeChoices(list) ==
    { o \in [Tickers -> ApiOutcomes] :
        \A x \in Tickers : (\A i \in 1..Len(list) : list[i] # x) => o[x] = "frame" }

DetCall ==
    \E list \in { b \in Batches : Len(b) >= 2 } :
      \E o \in OutcomeChoices(list) :
        /\ ut_pc["main"] = "absent"
        /\ dl_pc["main"] = "idle"
        /\ tickers' = list
        /\ result' = NoResult
        /\ futures' = [i \in 1..Len(list) |-> Queued]
        /\ args' = << [outcomes |-> o, memory |-> dl_memory, disk |-> dl_disk] >>
        /\ DlGoto("main", "collect")
        /\ UNCHANGED << dl_config, dl_memory, dl_disk, dl_frame, ret, cache_vars, now,
                        dl_last, dl_lock, utils >>

\* a step of a task's get_stock_prices; the DataSource answers as fixed
DetTaskStep(w) ==
    /\ \/ DlGetDisk(w)
       \/ DlGetPromote(w)
       \/ DlGetApi(w, Outcome(dl_frame[w].ticker))
       \/ DlGetSaveMemory(w)
       \/ DlGetSaveDisk(w)
    /\ UNCHANGED batch
    /\ OnlyBatch

(***************************************************************************)
(* utils.DataLoader.load_stock_data (prices only) under the same fixed     *)
(* outcomes                                                                *)
(***************************************************************************)
UtGoto(t, label) == ut_pc' = [ut_pc EXCEPT ![t] = label]
UtOnly == UNCHANGED << cache_vars, loader, now >>
UtStored(data) == [present |-> TRUE, timestamp |-> 0, data |-> data]

\* lines 266-273: _load_single_stock_data is entered and looks the key up in
\* memory_cache
UtLoadMemory(t, from, ticker) ==
    /\ ut_pc[t] = from
    /\ LET m == memory_cache[UtMemoryKey(ticker)] IN
        IF m.present
        THEN /\ ut_frame' = [ut_frame EXCEPT ![t] = [ticker |-> ticker, data |-> m.data]]
             /\ UtGoto(t, "done")
        ELSE /\ ut_frame' = [ut_frame EXCEPT ![t] = [ticker |-> ticker, data |-> DlNone]]
             /\ UtGoto(t, "disk")
    /\ UNCHANGED << ut_disk_cache_enabled, ut_max_workers, memory_cache, ut_files >>

\* lines 276-278: _load_from_disk_cache
UtLoadDisk(t) ==
    /\ ut_pc[t] = "disk"
    /\ LET data == UtLoadFromDiskCache(ut_frame[t].ticker) IN
        /\ ut_frame' = [ut_frame EXCEPT ![t].data = data]
        /\ UtGoto(t, IF data = DlNone THEN "api" ELSE "promote")
    /\ UNCHANGED << ut_disk_cache_enabled, ut_max_workers, memory_cache, ut_files >>

\* lines 293-295: what the file held is stored in memory_cache
UtLoadPromote(t) ==
    /\ ut_pc[t] = "promote"
    /\ memory_cache' = [memory_cache EXCEPT ![UtMemoryKey(ut_frame[t].ticker)] =
                            UtStored(ut_frame[t].data)]
    /\ UtGoto(t, "done")
    /\ UNCHANGED << ut_disk_cache_enabled, ut_max_workers, ut_files, ut_frame >>

\* lines 281-285 and 290-292: the API call and _optimize_dataframe_memory; an
\* exception is caught and an empty frame is returned without being cached
UtLoadApi(t, outcome) ==
    /\ ut_pc[t] = "api"
    /\ CASE outcome = "frame" ->
              /\ ut_frame' = [ut_frame EXCEPT ![t].data =
                                 UtOptimizeDataframeMemory(UtApiFrame(ut_frame[t].ticker))]
              /\ UtGoto(t, "save_disk")
         [] outcome = "empty" ->
              /\ ut_frame' = [ut_frame EXCEPT ![t].data = EmptyFrame]
              /\ UtGoto(t, "save_disk")
         [] OTHER ->
              /\ ut_frame' = [ut_frame EXCEPT ![t].data = EmptyFrame]
              /\ UtGoto(t, "done")
    /\ UNCHANGED << ut_disk_cache_enabled, ut_max_workers, memory_cache, ut_files >>

\* line 288: _save_to_disk_cache
UtSaveDisk(t) ==
    /\ ut_pc[t] = "save_disk"
    /\ ut_files' = IF ~ut_disk_cache_enabled THEN ut_files
                   ELSE [ut_files EXCEPT ![UtCacheFile(ut_frame[t].ticker)] =
                            [exists |-> TRUE, timestamp |-> now, data |-> ut_frame[t].data]]
    /\ UtGoto(t, "save_memory")
    /\ UNCHANGED << ut_disk_cache_enabled, ut_max_workers, memory_cache, ut_frame >>

\* line 289: self.memory_cache[memory_cache_key] = prices_data
UtSaveMemory(t) ==
    /\ ut_pc[t] = "save_memory"
    /\ memory_cache' = [memory_cache EXCEPT ![UtMemoryKey(ut_frame[t].ticker)] =
                            UtStored(ut_frame[t].data)]
    /\ UtGoto(t, "done")
    /\ UNCHANGED << ut_disk_cache_enabled, ut_max_workers, ut_files, ut_frame >>

\* a step of _load_single_stock_data after the memory lookup
UtLoadStep(t) ==
    \/ UtLoadDisk(t)
    \/ UtLoadPromote(t)
    \/ UtLoadApi(t, Outcome(ut_frame[t].ticker))
    \/ UtSaveDisk(t)
    \/ UtSaveMemory(t)

\* ThreadPoolExecutor(max_workers=min(self.max_workers, len(tickers)))
UtPoolSize == Min(ut_max_workers, Len(ut_tickers))
UtPool == { WorkerSeq[i] : i \in 1..Min(UtPoolSize, Len(WorkerSeq)) }

\* lines 428-453: the call; one ticker is loaded by the caller itself,
\* otherwise one task per ticker is submitted; for an empty list the pool is
\* asked for min(max_workers, 0) threads and its constructor raises ValueError
UtCall ==
    \E list \in Batches :
      \E o \in OutcomeChoices(list) :
        /\ ut_pc["main"] = "idle"
        /\ ut_tickers' = list
        /\ ut_result' = NoResult
        /\ ut_futures' = IF Len(list) >= 2 THEN [i \in 1..Len(list) |-> UtQueued] ELSE << >>
        /\ args' = << [outcomes |-> o, memory |-> memory_cache, disk |-> ut_files] >>
        /\ UtGoto("main", CASE Len(list) = 0 -> "batch_raised"
                            [] Len(list) = 1 -> "single"
                            [] OTHER -> "collect")
        /\ UNCHANGED << ut_disk_cache_enabled, ut_max_workers, memory_cache, ut_files,
                        ut_frame, ret >>
        /\ UtOnly

\* lines 432-438: _load_single_stock_data called by the caller itself
UtSingleLoad ==
    /\ UtLoadMemory("main", "single", ut_tickers[1])
    /\ UNCHANGED << ut_tickers, ut_futures, ut_result, call >>
    /\ UtOnly

UtSingleStep ==
    /\ Len(ut_tickers) = 1
    /\ UtLoadStep("main")
    /\ UNCHANGED << ut_tickers, ut_futures, ut_result, call >>
    /\ UtOnly

\* lines 433-439: the one-entry map is returned
UtSingleReturn ==
    /\ Len(ut_tickers) = 1
    /\ ut_pc["main"] = "done"
    /\ ut_result' = [ut_result EXCEPT ![ut_tickers[1]] = ut_frame["main"].data]
    /\ ut_frame' = [ut_frame EXCEPT !["main"] = UtNoFrame]
    /\ UtGoto("main", "batch_done")
    /\ UNCHANGED << ut_disk_cache_enabled, ut_max_workers, memory_cache, ut_files,
                    ut_tickers, ut_futures, call >>
    /\ UtOnly

\* a pool thread takes the oldest queued task and enters
\* _load_single_stock_data
UtTaskStart(w) ==
    /\ w \in UtPool
    /\ ut_pc["main"] = "collect"
    /\ \E i \in 1..Len(ut_futures) : ut_futures[i].state = "queued"
    /\ LET i == CHOOSE i \in 1..Len(ut_futures) :
                    /\ ut_futures[i].state = "queued"
                    /\ \A j \in 1..(i - 1) : ut_futures[j].state # "queued"
       IN /\ ut_futures' = [ut_futures EXCEPT ![i].state = w]
          /\ UtLoadMemory(w, "idle", ut_tickers[i])
    /\ UNCHANGED << ut_tickers, ut_result, call >>
    /\ UtOnly

UtTaskStep(w) ==
    /\ UtLoadStep(w)
    /\ UNCHANGED << ut_tickers, ut_futures, ut_result, call >>
    /\ UtOnly

\* the task returns its dict and the future is done
UtTaskFinish(w) ==
    /\ ut_pc[w] = "done"
    /\ LET i == CHOOSE i \in 1..Len(ut_futures) : ut_futures[i].state = w
       IN ut_futures' = [ut_futures EXCEPT ![i] =
              [state |-> "done", ticker |-> ut_frame[w].ticker, data |-> ut_frame[w].data]]
    /\ UtGoto(w, "idle")
    /\ ut_frame' = [ut_frame EXCEPT ![w] = UtNoFrame]
    /\ UNCHANGED << ut_disk_cache_enabled, ut_max_workers, memory_cache, ut_files,
                    ut_tickers, ut_result, call >>
    /\ UtOnly

\* lines 456-468: as_completed yields the futures as they finish, in any
\* order; result[ticker] = data
UtCollect ==
    /\ ut_pc["main"] = "collect"
    /\ \E i \in 1..Len(ut_futures) :
        /\ ut_futures[i].state = "done"
        /\ ut_result' = [ut_result EXCEPT ![ut_tickers[i]] = ut_futures[i].data]
        /\ ut_futures' = [ut_futures EXCEPT ![i].state = "collected"]
    /\ UNCHANGED << ut_disk_cache_enabled, ut_max_workers, memory_cache, ut_files,
                    ut_pc, ut_frame, ut_tickers, call >>
    /\ UtOnly

\* lines 470-473: every future was yielded, the pool is shut down
UtReturn ==
    /\ ut_pc["main"] = "collect"
    /\ \A i \in 1..Len(ut_futures) : ut_futures[i].state = "collected"
    /\ UtGoto("main", "batch_done")
    /\ UNCHANGED << ut_disk_cache_enabled, ut_max_workers, memory_cache, ut_files,
                    ut_frame, ut_tickers, ut_futures, ut_result, call >>
    /\ UtOnly

\* the caller takes the map (or the exception) and may call again
UtNext ==
    /\ ut_pc["main"] \in {"batch_done", "batch_raised"}
    /\ UtGoto("main", "idle")
    /\ ut_tickers' = << >>
    /\ ut_futures' = << >>
    /\ ut_result' = << >>
    /\ UNCHANGED << ut_disk_cache_enabled, ut_max_workers, memory_cache, ut_files,
                    ut_frame, call >>
    /\ UtOnly

UtReturned == ut_pc["main"] = "batch_done"
UtRaised == ut_pc["main"] = "batch_raised"

\* the process holds one of the two loaders
DetInit ==
    /\ \/ LoaderInit /\ UtilsUnused
       \/ LoaderUnused /\ UtilsInit
    /\ CacheUnused /\ NoCall /\ now = 0
DetNext ==
    \/ DetCall
    \/ \E w \in DlThreads \ {"main"} :
        \/ BtTaskStart(w)
        \/ DetTaskStep(w)
        \/ BtTaskFinish(w)
    \/ BtCollect
    \/ BtReturn
    \/ BtNext
    \/ UtCall
    \/ UtSingleLoad
    \/ UtSingleStep
    \/ UtSingleReturn
    \/ \E w \in UtThreads \ {"main"} :
        \/ UtTaskStart(w)
        \/ UtTaskStep(w)
        \/ UtTaskFinish(w)
    \/ UtCollect
    \/ UtReturn
    \/ UtNext
DetSpec == DetInit /\ [][DetNext]_vars

\* what _load_single_stock_data returns for the identifier when it runs
\* alone on memory_cache and the files as they were at the call
UtAlone(ticker) ==
    LET m == args[1].memory[UtMemoryKey(ticker)]
        f == args[1].disk[UtCacheFile(ticker)]
    IN  IF m.present THEN m.data
        ELSE IF /\ ut_disk_cache_enabled /\ f.exists
                /\ (now - f.timestamp) \div SecondsPerDay <= UtTimeoutDays
                /\ f.data # DlNone
        THEN f.data
        ELSE IF Outcome(ticker) = "frame"
        THEN UtOptimizeDataframeMemory(UtApiFrame(ticker))
        ELSE EmptyFrame

\* what get_stock_prices returns for the identifier when it runs alone on
\* the caches as they were at the call
Alone(ticker) ==
    LET k == DlRequestKey("prices", ticker)
        m == args[1].memory["prices"][k]
        f == args[1].disk["prices"][k]
    IN  IF dl_memory_cache_enabled /\ m.present /\ now - m.timestamp <= Ttl
        THEN m.data
        ELSE IF dl_disk_cache_enabled /\ f.exists /\ now - f.timestamp <= Ttl
        THEN f.data
        ELSE IF Outcome(ticker) = "frame" THEN DlOptimizeMemory(ApiFrame(ticker))
        ELSE EmptyFrame

DistinctIdentifiers == \A i, j \in 1..Len(tickers) : i # j => tickers[i] # tickers[j]
DistinctSymbols ==
    \A i, j \in 1..Len(tickers) : i # j => Lower(tickers[i]) # Lower(tickers[j])
UtDistinctIdentifiers ==
    \A i, j \in 1..Len(ut_tickers) : i # j => ut_tickers[i] # ut_tickers[j]

\* the map returned holds, for every identifier, what its own fetch yields on
\* the caches as they were at the call: the map of the schedule in which no
\* task sees what another task of the batch cached
BatchAsAlone == \A i \in 1..Len(tickers) : result[tickers[i]] = Alone(tickers[i])
UtBatchAsAlone ==
    \A x \in Tickers :
        ut_result[x] = IF \E i \in 1..Len(ut_tickers) : ut_tickers[i] = x
                       THEN UtAlone(x) ELSE Missing

\* C20 as stated: for pairwise different identifiers and fixed outcomes, the
\* map returned by load_stocks_data run by two pool threads, and the map
\* returned by load_stock_data, is that one map whatever the schedule and the
\* completion order of the tasks.
C20_ScheduleIndependent ==
    /\ (BatchReturned /\ Len(tickers) >= 2 /\ DistinctIdentifiers /\ max_workers = 2)
            => BatchAsAlone
    /\ (UtReturned /\ Len(ut_tickers) >= 2 /\ UtDistinctIdentifiers) => UtBatchAsAlone

\* C20 for identifiers that, for load_stocks_data, stay different when
\* lower-cased: the returned map is the same for every schedule and completion
\* order of the tasks.
C20_ScheduleIndependentSymbols ==
    /\ (BatchReturned /\ Len(tickers) >= 2 /\ DistinctSymbols) => BatchAsAlone
    /\ (UtReturned /\ Len(ut_tickers) >= 2 /\ UtDistinctIdentifiers) => UtBatchAsAlone

C20_Witness ==
    /\ BatchReturned
    /\ tickers = << "AAPL", "MSFT" >> /\ max_workers = 2
    /\ Outcome("AAPL") = "raise" /\ Outcome("MSFT") = "frame"
    /\ result["AAPL"] = EmptyFrame /\ result["MSFT"].kind = "frame"

(***************************************************************************)
(* LockSpec: two threads call get_stock_prices on one data.DataLoader; the *)
(* with-blocks on DataLoader._cache_lock are entered and left in steps     *)
(***************************************************************************)
LockThreads == {"w1", "w2"}

\* a with-block that does not give the lock back
LockKeptOnExit(t) == t

\* `with self._cache_lock:` (lines 226 and 257): the lock is released when
\* the block is left, by return or by falling through
LockAfterWith(t) == "none"

\* the memory operations of get_stock_prices that run under the lock
LockedSteps == {"enter", "get_promote", "get_save_memory"}
FetchInProgress(t) == dl_pc[t] = "get_api"

LockIdle == UNCHANGED << cache_vars, call, utils, now, batch, dl_last >>

\* lines 336-338: get_stock_prices is called and the key is built
LkCall(t) ==
    \E ticker \in Tickers :
        /\ dl_pc[t] = "idle"
        /\ dl_frame' = [dl_frame EXCEPT ![t] =
                [op |-> "get", d |-> "prices", ticker |-> ticker,
                 key |-> DlRequestKey("prices", ticker), data |-> DlNone, calls |-> 0]]
        /\ DlGoto(t, "enter")
        /\ UNCHANGED << dl_config, dl_memory, dl_disk, dl_lock >>
        /\ LockIdle

\* lines 226 and 257: the with-block is entered once the RLock is free or
\* already owned by the thread; _get_from_memory_cache and
\* _save_to_memory_cache return before it when the memory cache is disabled
LkAcquire(t) ==
    /\ dl_memory_cache_enabled
    /\ dl_pc[t] \in LockedSteps
    /\ dl_lock \in {"none", t}
    /\ dl_lock' = t
    /\ UNCHANGED << dl_config, dl_memory, dl_disk, dl_pc, dl_frame >>
    /\ LockIdle

LockHeldFor(t) == ~dl_memory_cache_enabled \/ dl_lock = t
LockLeft(t) == dl_lock' = IF dl_memory_cache_enabled THEN LockAfterWith(t) ELSE dl_lock

\* lines 227-242: the lookup, then the block is left
LkGetMemory(t) ==
    /\ LockHeldFor(t)
    /\ DlGetMemory(t, "enter", "prices", dl_frame[t].ticker)
    /\ LockLeft(t)
    /\ LockIdle

\* lines 258-266 called from line 349
LkPromote(t) == LockHeldFor(t) /\ DlGetPromote(t) /\ LockLeft(t) /\ LockIdle

\* lines 258-266 called from line 360
LkSaveMemory(t) == LockHeldFor(t) /\ DlGetSaveMemory(t) /\ LockLeft(t) /\ LockIdle

\* the disk lookup, the DataSource call and the file write take no lock
LkUnlocked(t) ==
    /\ \/ DlGetDisk(t)
       \/ \E outcome \in ApiOutcomes : DlGetApi(t, outcome)
       \/ DlGetSaveDisk(t)
    /\ UNCHANGED dl_lock
    /\ LockIdle

\* the call returns or raises and the thread may call again
LkReturn(t) ==
    /\ dl_pc[t] \in {"done", "raised"}
    /\ DlGoto(t, "idle")
    /\ dl_frame' = [dl_frame EXCEPT ![t] = DlNoFrame]
    /\ UNCHANGED << dl_config, dl_memory, dl_disk, dl_lock >>
    /\ LockIdle

LockInit == LoaderInit /\ CacheUnused /\ UtilsUnused /\ NoCall /\ now = 0
LockNext ==
    \E t \in LockThreads :
        \/ LkCall(t)
        \/ LkAcquire(t)
        \/ LkGetMemory(t)
        \/ LkPromote(t)
        \/ LkSaveMemory(t)
        \/ LkUnlocked(t)
        \/ LkReturn(t)
LockSpec == LockInit /\ [][LockNext]_vars

\* C21: no thread holds DataLoader._cache_lock while its DataSource fetch
\* is in progress, so the lock is free, or held by a thread that is inside
\* one memory get or set of its own, whenever a fetch is in progress.
C21_NoLockAcrossFetch ==
    \A t \in LockThreads :
        FetchInProgress(t) =>
            /\ dl_lock # t
            /\ \A u \in LockThreads : dl_lock = u => dl_pc[u] \in LockedSteps

\* a memory hit of w2 completes while the fetch of w1 is in progress
C21_Witness ==
    /\ dl_memory_cache_enabled /\ ~dl_disk_cache_enabled
    /\ FetchInProgress("w1")
    /\ dl_pc["w2"] = "done" /\ dl_frame["w2"].calls = 0
    /\ dl_frame["w2"].data.kind = "frame"

(***************************************************************************)
(* ConfigSpec: data.DataLoader.__init__ with any max_workers, then batch   *)
(* loads                                                                   *)
(***************************************************************************)
AnyWorkerChoices == {-1, 0, 1, 2}

\* DataLoader.__init__, lines 66-84: the arguments are stored as given; no
\* value is compared with anything
RejectedByInit(workers) == FALSE

CfgConstruct ==
    /\ dl_pc["main"] = "new"
    /\ DlGoto("main", IF RejectedByInit(max_workers) THEN "init_raised" ELSE "idle")
    /\ UNCHANGED << dl_config, dl_memory, dl_disk, dl_frame, batch >>
    /\ OnlyBatch

ConfigInit ==
    /\ dl_memory_cache_enabled \in BOOLEAN
    /\ dl_disk_cache_enabled = FALSE
    /\ dl_memory_optimization = FALSE
    /\ dl_cache_timeout_days = DefaultTimeoutDays
    /\ max_workers \in AnyWorkerChoices
    /\ dl_memory = [d \in DataTypes |-> [k \in DlKeys |-> NoEntry]]
    /\ dl_disk = [d \in DataTypes |-> [k \in DlKeys |-> DlNoFile]]
    /\ dl_pc = [t \in DlThreads |-> IF t = "main" THEN "new" ELSE "idle"]
    /\ dl_frame = [t \in DlThreads |-> DlNoFrame]
    /\ dl_lock = "none"
    /\ tickers = << >>
    /\ futures = << >>
    /\ result = << >>
    /\ dl_last = DlNoFrame
    /\ CacheUnused /\ UtilsUnused /\ NoCall /\ now = 0
ConfigNext ==
    \/ CfgConstruct
    \/ BatchNext
ConfigSpec == ConfigInit /\ [][ConfigNext]_vars

\* C22: a bad max_workers is rejected by the constructor of data.DataLoader,
\* so that load_stocks_data of two or more identifiers (whose tasks catch
\* every exception of a fetch) never raises.
C22_BadConfigRejectedAtConstruction == ~(BatchRaised /\ Len(tickers) >= 2)

\* C23: a memory entry of data.DataLoader carries the time of the write that
\* created its payload (the time of the fetch, also after a promotion from
\* disk), so its age counts from the original write.
C23_PromotionKeepsTimestamp ==
    \A d \in DataTypes, k \in DlKeys :
        (dl_memory[d][k].present /\ dl_memory[d][k].data.kind = "frame") =>
            dl_memory[d][k].timestamp = dl_memory[d][k].data.fetched_at

\* C24: a file of the Cache disk tier changes only in a clear_cache call or
\* in the disk write of a set_X of its own table and key; reads (also those
\* that find the file stale), evictions from memory and writes of other keys
\* leave it in place.
C24_DiskNeverPruned ==
    [][ \A d \in DataTypes, k \in AllKeys :
            (disk[d][k].exists /\ disk'[d][k] # disk[d][k]) =>
                \/ pc["t1"] = "idle" /\ frame'["t1"].op = "clear"
                \/ /\ pc["t1"] = "set_disk"
                   /\ frame["t1"].d = d /\ frame["t1"].key = k
                   /\ disk'[d][k].exists ]_vars

\* a read has found the file of its key stale and returned None; the file is
\* still there, and the key is not in memory
C24_Witness ==
    /\ pc["t1"] = "done" /\ frame["t1"].op = "get" /\ frame["t1"].data = NoData
    /\ disk_cache_enabled
    /\ disk[frame["t1"].d][frame["t1"].key].exists
    /\ ~DiskFresh(disk[frame["t1"].d][frame["t1"].key])
    /\ ~Has(cache[frame["t1"].d], frame["t1"].key)
    /\ \E k \in AllKeys : k # frame["t1"].key /\ disk[frame["t1"].d][k].exists

(***************************************************************************)
(* DomainSpec: one caller of Cache using two tables, with one key string   *)
(* present in both                                                         *)
(***************************************************************************)
\* get_metrics / set_metrics accept any string as ticker: the text of a
\* prices key, passed as ticker, gives that same text as metrics key
KeyAsTicker == PricesKey("AAPL", EndDate)
DomainRequests(d) ==
    IF d = "prices" THEN { [ticker |-> "AAPL", end_date |-> EndDate] }
    ELSE { [ticker |-> "AAPL", end_date |-> EndDate],
           [ticker |-> KeyAsTicker, end_date |-> EndDate] }

DomGetMemory ==
    \E d \in DataTypes : \E req \in DomainRequests(d) :
        GetMemory("t1", d, req) /\ Untracked
DomGetDisk == GetDisk("t1") /\ Untracked
DomGetPromote == GetPromote("t1") /\ Untracked
DomEnforce == Enforce("t1") /\ Untracked
DomSetMemory ==
    \E d \in DataTypes, data \in CachePayloads : \E req \in DomainRequests(d) :
        SetMemory("t1", d, req, data) /\ Untracked
DomSetDisk == SetDisk("t1") /\ Untracked
DomClearCache ==
    \E dt \in DataTypes \cup {"None"}, ticker \in ClearTickers :
        ClearCache("t1", dt, ticker) /\ Untracked
DomReturn == Return("t1") /\ Untracked

DomainNext ==
    \/ DomGetMemory
    \/ DomGetDisk
    \/ DomGetPromote
    \/ DomEnforce
    \/ DomSetMemory
    \/ DomSetDisk
    \/ DomClearCache
    \/ DomReturn
DomainSpec == Init /\ [][DomainNext]_vars

\* the table the step belongs to: that of the call being made or in progress
\* ("None" for clear_cache without a data type)
OpDomain == IF pc["t1"] = "idle" THEN frame'["t1"].d ELSE frame["t1"].d

\* C25: a step of an operation on one table of Cache leaves the memory
\* table, the access counters and the files of every other table unchanged.
C25_DomainIsolation ==
    [][ \A d \in DataTypes :
            (OpDomain # "None" /\ d # OpDomain) =>
                /\ cache'[d] = cache[d]
                /\ cache_hits'[d] = cache_hits[d]
                /\ disk'[d] = disk[d] ]_vars

\* clear_cache('prices', 'AAPL') has returned; the metrics table still holds
\* the two keys that start with "aapl", one of them the string of the prices
\* key that was cleared
C25_Witness ==
    /\ pc["t1"] = "done" /\ frame["t1"].op = "clear" /\ frame["t1"].d = "prices"
    /\ memory_cache_enabled /\ disk_cache_enabled
    /\ ~Has(cache["prices"], KeyAsTicker) /\ ~disk["prices"][KeyAsTicker].exists
    /\ Has(cache["metrics"], KeyAsTicker) /\ disk["metrics"][KeyAsTicker].exists
    /\ Has(cache["metrics"], MetricsKey("AAPL"))
    /\ cache_hits["metrics"][KeyAsTicker] > 0

\* C26: in every step of a get_X or set_X call of Cache (the eviction it
\* triggers included) no access counter decreases, and a counter that
\* changes rises by exactly one.
C26_CounterMonotone ==
    [][ ~(pc["t1"] = "idle" /\ frame'["t1"].op = "clear") =>
            \A d \in DataTypes, k \in AllKeys :
                \/ cache_hits'[d][k] = cache_hits[d][k]
                \/ cache_hits'[d][k] = cache_hits[d][k] + 1 ]_vars

(***************************************************************************)
(* UtFaultSpec: utils.DataLoader.load_stock_data when a disk write may     *)
(* fail                                                                    *)
(***************************************************************************)
\* lines 286-292: _save_to_disk_cache raises (os.makedirs or open fails and
\* nothing is written, or pickle.dump fails after open truncated the file);
\* the call stands inside the try block of the fetch, so the except branch
\* replaces the fetched frame by pd.DataFrame() and line 289 is not reached
UtSaveDiskFails(t, how) ==
    /\ ut_pc[t] = "save_disk"
    /\ ut_disk_cache_enabled
    /\ ut_files' = IF how = "dump"
                   THEN [ut_files EXCEPT ![UtCacheFile(ut_frame[t].ticker)] =
                            [exists |-> TRUE, timestamp |-> now, data |-> DlNone]]
                   ELSE ut_files
    /\ ut_frame' = [ut_frame EXCEPT ![t].data = EmptyFrame]
    /\ UtGoto(t, "done")
    /\ UNCHANGED << ut_disk_cache_enabled, ut_max_workers, memory_cache >>

UtFltSingleFails ==
    /\ Len(ut_tickers) = 1
    /\ \E how \in WriteFailures : UtSaveDiskFails("main", how)
    /\ UNCHANGED << ut_tickers, ut_futures, ut_result, call >>
    /\ UtOnly

UtFltTaskFails(w) ==
    /\ \E how \in WriteFailures : UtSaveDiskFails(w, how)
    /\ UNCHANGED << ut_tickers, ut_futures, ut_result, call >>
    /\ UtOnly

UtFaultInit == LoaderUnused /\ UtilsInit /\ CacheUnused /\ NoCall /\ now = 0
UtFaultNext ==
    \/ UtCall
    \/ UtSingleLoad
    \/ UtSingleStep
    \/ UtFltSingleFails
    \/ UtSingleReturn
    \/ \E w \in UtThreads \ {"main"} :
        \/ UtTaskStart(w)
        \/ UtTaskStep(w)
        \/ UtFltTaskFails(w)
        \/ UtTaskFinish(w)
    \/ UtCollect
    \/ UtReturn
    \/ UtNext
UtFaultSpec == UtFaultInit /\ [][UtFaultNext]_vars

\* C27: when load_stock_data has returned, an identifier that was in neither
\* tier at the call and whose fetch succeeded has its fetched frame in the
\* returned map and in memory_cache, whether or not the disk write failed.
C27_DiskFailureKeepsPayload ==
    UtReturned =>
        \A i \in 1..Len(ut_tickers) :
            LET x == ut_tickers[i] IN
            ( /\ Outcome(x) = "frame"
              /\ ~args[1].memory[UtMemoryKey(x)].present
              /\ args[1].disk[UtCacheFile(x)].data = DlNone ) =>
                /\ ut_result[x] = UtOptimizeDataframeMemory(UtApiFrame(x))
                /\ memory_cache[UtMemoryKey(x)].present
                /\ memory_cache[UtMemoryKey(x)].data = ut_result[x]

\* C28: when every cache directory can be created the constructor of Cache
\* completes without raising; the constructed Cache has disk_cache_enabled as
\* it was given, empty memory tables and empty access-counter tables.
C28_ConstructorCompletes ==
    DirsCreatable =>
        /\ pc["t1"] # "init_raised"
        /\ pc["t1"] = "idle" =>
            /\ ret = << "constructed" >>
            /\ \A d \in DataTypes :
                /\ cache[d] = << >>
                /\ \A k \in AllKeys : cache_hits[d][k] = 0

(***************************************************************************)
(* ClearRaceSpec: t1 writes and clears, t2 only reads; no read is in       *)
(* progress during a write                                                 *)
(***************************************************************************)
CrSetMemory == pc["t2"] = "idle" /\ ConcSetMemory("t1")
CrGetMemory == frame["t1"].op # "set" /\ ConcGetMemory("t2")

ClearRaceNext ==
    \/ CrSetMemory
    \/ ConcEnforce("t1")
    \/ ConcSetDisk("t1")
    \/ ConcClearCache("t1")
    \/ ConcReturn("t1")
    \/ CrGetMemory
    \/ ConcGetDisk("t2")
    \/ ConcGetPromote("t2")
    \/ ConcEnforce("t2")
    \/ ConcReturn("t2")
ClearRaceSpec == Init /\ [][ClearRaceNext]_vars

\* C29: when clear_cache has completed and no read is in progress, no key
\* it cleared is in the memory table or on disk (t1 has not returned yet, so
\* nothing was written after the clear).
C29_ClearedStaysCleared ==
    ( /\ pc["t1"] = "done" /\ frame["t1"].op = "clear"
      /\ pc["t2"] \in {"idle", "done"} ) =>
        \A d \in ClearedTypes(frame["t1"].d), k \in AllKeys :
            ClearedKey(k, frame["t1"].key) =>
                /\ ~Has(cache[d], k)
                /\ ~disk[d][k].exists

(***************************************************************************)
(* WritersSpec: two threads calling set_prices on one Cache                *)
(***************************************************************************)
WritersNext ==
    \E t \in Threads :
        \/ ConcSetMemory(t)
        \/ ConcEnforce(t)
        \/ ConcSetDisk(t)
        \/ ConcReturn(t)
WritersSpec == Init /\ [][WritersNext]_vars

Quiescent == \A t \in Threads : pc[t] = "idle"

\* C30: when no operation is in progress, a key held by the memory table
\* and by the disk tier has the same payload in both.
C30_TiersCoherent ==
    Quiescent =>
        \A d \in DataTypes, k \in AllKeys :
            (Has(cache[d], k) /\ disk[d][k].exists) =>
                CacheGet(cache[d], k) = disk[d][k].data

(***************************************************************************)
(* C31: promotion of a disk hit (checked under TtlSpec)                    *)
(***************************************************************************)
PromotionCase(t) == memory_cache_enabled /\ disk_cache_enabled /\ pc'[t] # pc[t]

\* lines 346-348: the fresh file of the key is what the call will return
LoadedFromDisk(t) ==
    LET file == disk[frame[t].d][frame[t].key] IN
    (pc[t] = "get_disk" /\ DiskFresh(file))
        => /\ frame'[t].data = file.data
           /\ pc'[t] = "get_promote"
           /\ disk' = disk

\* lines 351-353: the loaded payload is stored in memory under the key
StoredInMemory(t) ==
    LET d == frame[t].d
        k == frame[t].key
    IN
    pc[t] = "get_promote"
        => /\ Has(cache'[d], k)
           /\ CacheGet(cache'[d], k) = frame[t].data
           /\ frame' = frame
           /\ disk' = disk

\* lines 354-355: after the capacity enforcement the key holds the payload
\* or is one of the keys this enforcement removed; the payload is returned
KeptOrEvicted(t) ==
    LET d == frame[t].d
        k == frame[t].key
    IN
    pc[t] = "get_enforce"
        => /\ pc'[t] = "done"
           /\ frame' = frame
           /\ frame[t].data = disk[d][k].data
           /\ disk' = disk
           /\ \/ Has(cache'[d], k) /\ CacheGet(cache'[d], k) = frame[t].data
              \/ /\ ~Has(cache'[d], k)
                 /\ k \in keys_to_remove(cache[d], cache_hits[d], max_memory_items)

\* C31: with both tiers enabled, a get_X that misses in memory and finds an
\* unexpired file returns the payload of that file; after the call the key
\* is in memory with that payload or was removed by the capacity enforcement
\* of this promotion; the file is unchanged
C31_PromotionOfDiskHit ==
    [][ PromotionCase("t1") =>
            LoadedFromDisk("t1") /\ StoredInMemory("t1") /\ KeptOrEvicted("t1") ]_vars

\* a promoted key that its own promotion evicted, payload returned
C31_Witness ==
    /\ memory_cache_enabled /\ disk_cache_enabled
    /\ pc["t1"] = "done"
    /\ frame["t1"].op = "get"
    /\ frame["t1"].data # NoData
    /\ frame["t1"].data = disk["prices"][frame["t1"].key].data
    /\ ~Has(cache["prices"], frame["t1"].key)
    /\ cache["prices"] # << >>

(***************************************************************************)
(* C32: concurrent requests for one key are not coalesced (BatchSpec)      *)
(***************************************************************************)
Fetching == {"get_api", "get_save_memory", "get_save_disk"}
FetchedElsewhere(w) ==
    \E v \in DlThreads \ {w} :
        dl_frame[v].key = dl_frame[w].key /\ dl_pc[v] \in Fetching

\* C32: get_stock_prices does not coalesce concurrent requests for one key:
\* a call that misses both tiers goes on to invoke the DataSource also while
\* another call is fetching the same key, so two tasks of one batch that
\* name the same key can both invoke it
C32_NoCoalescing ==
    [][ \A w \in DlThreads :
          /\ ( /\ dl_pc[w] = "get_disk" /\ dl_pc'[w] # "get_disk"
               /\ ~DlLoadFromDisk(dl_frame[w].d, dl_frame[w].key)[1]
               /\ FetchedElsewhere(w) )
                => dl_pc'[w] = "get_api"
          /\ (dl_pc[w] = "get_api" /\ dl_pc'[w] # "get_api")
                => dl_frame'[w].calls = dl_frame[w].calls + 1 ]_vars

\* two tasks of one batch, same key, the DataSource invoked by each
C32_Witness ==
    /\ dl_pc["main"] = "collect"
    /\ dl_frame["w1"].key = dl_frame["w2"].key
    /\ dl_frame["w1"].calls = 1 /\ dl_frame["w2"].calls = 1
    /\ dl_pc["w1"] = "get_save_memory" /\ dl_pc["w2"] = "get_save_memory"
    /\ \A d \in DataTypes : dl_memory[d][dl_frame["w1"].key] = NoEntry

(***************************************************************************)
(* C33: ties between equal counters (checked under Spec)                   *)
(***************************************************************************)
\* C33: the capacity enforcement is deterministic; of two entries with equal
\* access counters the one inserted into the memory table earlier is evicted
\* first: the later one is never evicted while the earlier one stays
C33_TiesEvictEarliestInserted ==
    [][ EnforceStep("t1") =>
           LET d == frame["t1"].d
               tbl == cache[d]
           IN
           /\ cache'[d] = CacheDel(tbl, keys_to_remove(tbl, cache_hits[d], max_memory_items))
           /\ \A i \in 1..Len(tbl) : \A j \in (i + 1)..Len(tbl) :
                ( /\ cache_hits[d][tbl[i].key] = cache_hits[d][tbl[j].key]
                  /\ tbl[j].key \in EvictedBy("t1") )
                    => tbl[i].key \in EvictedBy("t1")
      ]_vars

\* a full table of two earlier entries and a new one, all with counter 1:
\* the one at the head of the table was evicted, the other two stay
C33_Witness ==
    /\ max_memory_items = 2
    /\ pc["t1"] = "set_disk"
    /\ evicted # {}
    /\ Len(Prices) = 2
    /\ \A i \in 1..2 : PricesHits[Prices[i].key] = 1
    /\ Prices[2].key = frame["t1"].key

(***************************************************************************)
(* PrefixSpec: one caller of Cache; clear_cache is given an identifier     *)
(* that is a proper prefix of a cached one                                 *)
(***************************************************************************)
PrefixTickers == {"AAP", "MSFT"}
PfxClearCache ==
    \E ticker \in PrefixTickers : ClearCache("t1", "prices", ticker) /\ Tracked

PrefixNext ==
    \/ SeqGetMemory
    \/ SeqGetDisk
    \/ SeqGetPromote
    \/ SeqEnforce
    \/ SeqSetMemory
    \/ SeqSetDisk
    \/ PfxClearCache
    \/ SeqReturn
PrefixSpec == Init /\ [][PrefixNext]_vars

ClearStep(t) == pc[t] = "idle" /\ frame'[t].op = "clear"
SameEntry(d, k) ==
    /\ Has(cache[d], k) => Has(cache'[d], k) /\ CacheGet(cache'[d], k) = CacheGet(cache[d], k)
    /\ disk'[d][k] = disk[d][k]

\* C34: clear_cache(domain, ticker=T) leaves every entry of the domain whose
\* identifier differs from T ignoring case, also one whose identifier has T
\* as a proper prefix, present and unchanged in memory and on disk
C34_ClearKeepsOtherIdentifiers ==
    [][ ClearStep("t1") =>
           \A req \in Requests :
               Lower(req.ticker) # frame'["t1"].key
                   => SameEntry("prices", RequestKey("prices", req)) ]_vars

(***************************************************************************)
(* InstanceSpec: two data.DataLoader instances in one process.  The first  *)
(* (caller "main") has the configuration and the cache root of the state   *)
(* variables; the second (caller "w1") is                                  *)
(* DataLoader(api_client=other, cache_dir=other_root,                      *)
(*            disk_cache_enabled=False): memory enabled, one day of TTL,   *)
(* nothing ever stored under its cache root.  _memory_cache is a class     *)
(* attribute (lines 33-39): both instances use dl_memory.                  *)
(***************************************************************************)
Other == "w1"
OtherMark == "other:"
\* the frame the DataSource of the second instance returns
OtherApiFrame(ticker) ==
    [kind |-> "frame", val |-> OtherMark \o Lower(ticker), fetched_at |-> now,
     dtype |-> "float64"]

\* lines 336-343 on the second instance: _get_from_memory_cache with
\* memory_cache_enabled = True and cache_timeout_days = 1
OthGetMemory ==
    \E ticker \in LoaderTickers :
        LET k == DlRequestKey("prices", ticker)
            hit == /\ dl_memory["prices"][k].present
                   /\ now - dl_memory["prices"][k].timestamp
                          <= DefaultTimeoutDays * SecondsPerDay
        IN
        /\ dl_pc[Other] = "idle"
        /\ dl_frame' = [dl_frame EXCEPT ![Other] =
                [op |-> "get", d |-> "prices", ticker |-> ticker, key |-> k,
                 data |-> IF hit THEN dl_memory["prices"][k].data ELSE DlNone,
                 calls |-> 0]]
        /\ DlGoto(Other, IF hit THEN "done" ELSE "get_disk")
        /\ UNCHANGED << dl_config, dl_memory, dl_disk >>
        /\ OnlyLoader

\* lines 345-347: _load_from_disk_cache returns (False, None), the disk
\* cache of the second instance is disabled
OthGetDisk ==
    /\ dl_pc[Other] = "get_disk"
    /\ DlGoto(Other, "get_api")
    /\ UNCHANGED << dl_config, dl_memory, dl_disk, dl_frame >>
    /\ OnlyLoader

\* lines 352-357 and 363: the DataSource of the second instance
OthGetApi ==
    \E outcome \in ApiOutcomes :
        /\ dl_pc[Other] = "get_api"
        /\ dl_frame' = [dl_frame EXCEPT
                ![Other].calls = @ + 1,
                ![Other].data = CASE outcome = "frame" -> OtherApiFrame(dl_frame[Other].ticker)
                                  [] outcome = "empty" -> EmptyFrame
                                  [] OTHER -> DlNone ]
        /\ DlGoto(Other, CASE outcome = "frame" -> "get_save_memory"
                           [] outcome = "empty" -> "done"
                           [] OTHER -> "raised")
        /\ UNCHANGED << dl_config, dl_memory, dl_disk >>
        /\ OnlyLoader

\* lines 360-363: _save_to_memory_cache; _save_to_disk_cache returns False
OthSaveMemory ==
    /\ dl_pc[Other] = "get_save_memory"
    /\ dl_memory' = [dl_memory EXCEPT !["prices"][dl_frame[Other].key] =
            [present |-> TRUE, timestamp |-> now, data |-> dl_frame[Other].data]]
    /\ DlGoto(Other, "done")
    /\ UNCHANGED << dl_config, dl_disk, dl_frame >>
    /\ OnlyLoader

\* the caller of the second instance takes the frame or the exception
OthReturn ==
    /\ dl_pc[Other] \in {"done", "raised"}
    /\ DlGoto(Other, "idle")
    /\ dl_frame' = [dl_frame EXCEPT ![Other] = DlNoFrame]
    /\ UNCHANGED << dl_config, dl_memory, dl_disk >>
    /\ OnlyLoader

InstanceNext ==
    \/ LdGetPrices
    \/ LdGetDisk
    \/ LdGetPromote
    \/ LdGetApi
    \/ LdGetSaveMemory
    \/ LdGetSaveDisk
    \/ LdReturn
    \/ LdClearCache
    \/ OthGetMemory
    \/ OthGetDisk
    \/ OthGetApi
    \/ OthSaveMemory
    \/ OthReturn
InstanceSpec == LoaderSpecInit /\ [][InstanceNext]_vars

\* C35: an instance returns a payload without invoking its DataSource only
\* if that instance wrote the payload or it is stored under that instance's
\* cache root; here nothing is stored under the root of the second instance,
\* so what it returns without a DataSource call came from its own DataSource
C35_InstanceIsolation ==
    ( /\ dl_pc[Other] = "done"
      /\ dl_frame[Other].calls = 0
      /\ dl_frame[Other].data.kind = "frame" )
        => StartsWith(dl_frame[Other].data.val, OtherMark)

(***************************************************************************)
(* C36: empty results are not cached (checked under LoaderSpec)            *)
(***************************************************************************)
NoEmptyCached ==
    \A d \in DataTypes : \A k \in DlKeys :
        /\ dl_memory[d][k].data.kind # "empty"
        /\ dl_disk[d][k].data.kind # "empty"

\* the call in progress repeats the request of the call that returned last
SameRequestAgain ==
    /\ dl_last.op = "get"
    /\ dl_pc["main"] \in {"done", "raised"}
    /\ dl_frame["main"].d = dl_last.d
    /\ dl_frame["main"].key = dl_last.key

\* C36: an empty frame from the DataSource is written to neither tier, and
\* the next identical request invokes the DataSource again
C36_EmptyNeverCached ==
    /\ NoEmptyCached
    /\ (SameRequestAgain /\ dl_last.data = EmptyFrame)
           => dl_frame["main"].calls = 1

\* an empty result, then the same request answered by a second fetch
C36_Witness ==
    /\ SameRequestAgain
    /\ dl_last.data = EmptyFrame /\ dl_last.calls = 1
    /\ dl_pc["main"] = "done"
    /\ dl_frame["main"].calls = 1
    /\ dl_frame["main"].data.kind = "frame"
    /\ dl_memory_cache_enabled /\ dl_disk_cache_enabled

(***************************************************************************)
(* C37: counters and memory table agree (checked under ConcSpec)           *)
(***************************************************************************)
CounterKeys(d) == { k \in AllKeys : cache_hits[d][k] > 0 }

\* C37: whenever no thread holds the lock, in each domain the keys that
\* have an access counter record are exactly the keys of the memory table
C37_CountersMatchTable ==
    lock = "none" => \A d \in DataTypes : CounterKeys(d) = CacheKeys(cache[d])

\* the lock is free after an eviction removed a key and its counter while
\* the other key stays with its counter, and a second caller is under way
C37_Witness ==
    /\ lock = "none"
    /\ pc["t1"] = "set_disk"
    /\ pc["t2"] = "get_disk"
    /\ Len(cache["prices"]) = 1
    /\ CounterKeys("prices") = CacheKeys(cache["prices"])
    /\ \E k \in AllKeys : cache_hits["prices"][k] >= 2
    /\ frame["t1"].key \notin CacheKeys(cache["prices"])

(***************************************************************************)
(* UtTtlSpec: utils.DataLoader.load_stock_data of one symbol while time    *)
(* passes in steps of an hour and of cache_timeout_days days, across       *)
(* restarts of the process (memory_cache is per instance and has no TTL)   *)
(***************************************************************************)
SecondsPerHour == SecondsPerDay \div 24
UtMaxClock == UtTimeoutDays * SecondsPerDay + SecondsPerHour
UtClockSteps == {SecondsPerHour, UtTimeoutDays * SecondsPerDay}

\* load_stock_data('AAPL', start, end): lines 426-432, one symbol, no pool
UtTtlCall ==
    \E o \in OutcomeChoices(<< "AAPL" >>) :
        /\ ut_pc["main"] = "idle"
        /\ ut_tickers' = << "AAPL" >>
        /\ ut_result' = NoResult
        /\ ut_futures' = << >>
        /\ args' = << [outcomes |-> o] >>
        /\ UtGoto("main", "single")
        /\ UNCHANGED << ut_disk_cache_enabled, ut_max_workers, memory_cache, ut_files,
                        ut_frame, ret >>
        /\ UtOnly

UtClock ==
    \E step \in UtClockSteps :
        /\ ut_pc["main"] = "idle"
        /\ now + step <= UtMaxClock
        /\ now' = now + step
        /\ UNCHANGED << cache_vars, loader, call, utils >>

\* line 68: a new process constructs the DataLoader on the same cache_dir,
\* self.memory_cache = {}; the files remain
UtRestart ==
    /\ ut_pc["main"] = "idle"
    /\ memory_cache' = [k \in UtMemoryKeys |-> NoEntry]
    /\ UNCHANGED << ut_disk_cache_enabled, ut_max_workers, ut_files, ut_pc, ut_frame,
                    ut_tickers, ut_futures, ut_result, call >>
    /\ UtOnly

UtTtlNext ==
    \/ UtTtlCall
    \/ UtSingleLoad
    \/ UtSingleStep
    \/ UtSingleReturn
    \/ UtNext
    \/ UtClock
    \/ UtRestart
UtTtlInit == UtFaultInit /\ ut_max_workers = 1
UtTtlSpec == UtTtlInit /\ [][UtTtlNext]_vars

UtDiskLookup ==
    /\ ut_pc["main"] = "disk" /\ ut_pc'["main"] # "disk"
    /\ ut_disk_cache_enabled
    /\ ut_files[UtCacheFile(ut_frame["main"].ticker)].exists
UtFileAge == now - ut_files[UtCacheFile(ut_frame["main"].ticker)].timestamp

\* C38: a disk entry of utils.DataLoader is a miss as soon as its age
\* exceeds cache_timeout_days days (for instance by one hour) and a hit
\* while its age is at most cache_timeout_days days
C38_DiskTtlExact ==
    [][ UtDiskLookup =>
          /\ UtFileAge > UtTimeoutDays * SecondsPerDay => ut_pc'["main"] = "api"
          /\ UtFileAge <= UtTimeoutDays * SecondsPerDay => ut_pc'["main"] = "promote"
      ]_vars

(***************************************************************************)
(* LiveSpec: termination.  Either two callers of one Cache, with every     *)
(* acquisition and release of _cache_lock (an RLock, line 95) as a step of *)
(* its own, or one caller of data.DataLoader.load_stocks_data and its      *)
(* pool.  A caller starts a call whenever it likes; a call in progress is  *)
(* scheduled fairly, and a thread waiting for the lock gets it if the lock *)
(* is free again and again.                                                *)
(***************************************************************************)
LiveFrame == UNCHANGED << history, loader, call, utils >>

\* threading.RLock: free, or held by the thread that asks
CanAcquireOnce(t) == lock = "none"
CanAcquire(t) == lock \in {"none", t}

\* the counters stay below MaxHits: a call starts only while every counter
\* leaves room for one increment by each caller
CallBudget ==
    \A d \in DataTypes : \A k \in AllKeys :
        cache_hits[d][k] + Cardinality(Threads) <= MaxHits

\* get_X, lines 336-340: the key; `with self._cache_lock` comes next
LvCallGet(t) ==
    \E req \in ConcRequests :
        /\ pc[t] = "idle"
        /\ CallBudget
        /\ frame' = [frame EXCEPT ![t] =
                MkFrame("get", "prices", RequestKey("prices", req), NoData)]
        /\ Goto(t, IF memory_cache_enabled THEN "get_lock" ELSE "get_disk")
        /\ UNCHANGED << config, cache, cache_hits, disk, lock, now >>
        /\ LiveFrame

\* set_X, lines 369-377
LvCallSet(t) ==
    \E req \in ConcRequests, data \in { v \in CachePayloads : v.kind = "frame" } :
        /\ pc[t] = "idle"
        /\ CallBudget
        /\ frame' = [frame EXCEPT ![t] =
                MkFrame("set", "prices", RequestKey("prices", req), OptimizeMemory(data))]
        /\ Goto(t, IF memory_cache_enabled THEN "set_lock" ELSE "set_disk")
        /\ UNCHANGED << config, cache, cache_hits, disk, lock, now >>
        /\ LiveFrame

\* clear_cache(data_type, ticker), line 630
LvCallClear(t) ==
    \E data_type \in ClearTypes, ticker \in ClearTickers :
        /\ pc[t] = "idle"
        /\ frame' = [frame EXCEPT ![t] = MkFrame("clear", data_type, Lower(ticker), NoData)]
        /\ Goto(t, "clear_lock")
        /\ UNCHANGED << config, cache, cache_hits, disk, lock, now >>
        /\ LiveFrame

\* `with self._cache_lock:` of get_X (lines 340, 351), set_X (line 377) and
\* clear_cache (line 630): the thread waits until it can take the lock
OuterWaits == {"get_lock", "get_promote", "set_lock", "clear_lock"}
Locked(label) ==
    CASE label = "get_lock" -> "get_locked"
      [] label = "get_promote" -> "promote_locked"
      [] label = "set_lock" -> "set_locked"
      [] label = "clear_lock" -> "clear_locked"
      [] label = "get_hit_lock" -> "get_hit_locked"
      [] label = "promote_hit_lock" -> "promote_hit_locked"
      [] label = "set_hit_lock" -> "set_hit_locked"
LvAcquire(t) ==
    /\ pc[t] \in OuterWaits
    /\ CanAcquire(t)
    /\ lock' = t
    /\ Goto(t, Locked(pc[t]))
    /\ UNCHANGED << config, cache, cache_hits, disk, now, frame >>
    /\ LiveFrame

\* get_X, lines 341-343: the lookup under the lock; a miss leaves the block
LvLookup(t) ==
    /\ pc[t] = "get_locked"
    /\ IF Has(cache[frame[t].d], frame[t].key)
       THEN Goto(t, "get_hit_lock") /\ UNCHANGED lock
       ELSE Goto(t, "get_disk") /\ lock' = "none"
    /\ UNCHANGED << config, cache, cache_hits, disk, now, frame >>
    /\ LiveFrame

\* lines 352 and 378: the assignment to the dict, under the lock
LvStore(t) ==
    /\ pc[t] \in {"promote_locked", "set_locked"}
    /\ cache' = [cache EXCEPT ![frame[t].d] = CachePut(@, frame[t].key, frame[t].data)]
    /\ Goto(t, IF pc[t] = "set_locked" THEN "set_hit_lock" ELSE "promote_hit_lock")
    /\ UNCHANGED << config, cache_hits, disk, lock, now, frame >>
    /\ LiveFrame

\* _update_cache_hit, line 321: `with self._cache_lock:` again, by the
\* thread that holds it
NestedWaits == {"get_hit_lock", "promote_hit_lock", "set_hit_lock"}
LvHitAcquire(t) ==
    /\ pc[t] \in NestedWaits
    /\ CanAcquire(t)
    /\ lock' = t
    /\ Goto(t, Locked(pc[t]))
    /\ UNCHANGED << config, cache, cache_hits, disk, now, frame >>
    /\ LiveFrame

\* _update_cache_hit, line 322, and the end of its with block: the inner
\* release leaves the lock with its holder
LvHitUpdate(t) ==
    /\ pc[t] \in {"get_hit_locked", "promote_hit_locked", "set_hit_locked"}
    /\ cache_hits' = [cache_hits EXCEPT ![frame[t].d][frame[t].key] = @ + 1]
    /\ Goto(t, CASE pc[t] = "get_hit_locked" -> "get_unlock"
                 [] pc[t] = "promote_hit_locked" -> "get_enforce"
                 [] OTHER -> "set_enforce")
    /\ UNCHANGED << config, cache, disk, lock, now, frame >>
    /\ LiveFrame

\* get_X, line 343: return of the hit, which leaves the with block
LvHitReturn(t) ==
    /\ pc[t] = "get_unlock"
    /\ frame' = [frame EXCEPT ![t].data = CacheGet(cache[frame[t].d], frame[t].key)]
    /\ lock' = "none"
    /\ Goto(t, "done")
    /\ UNCHANGED << config, cache, cache_hits, disk, now >>
    /\ LiveFrame

\* clear_cache, lines 631-680, under the lock, and the end of the block
LvClear(t) ==
    LET data_type == frame[t].d
        ticker == frame[t].key
    IN
    /\ pc[t] = "clear_locked"
    /\ cache' = [ d \in DataTypes |->
                    IF memory_cache_enabled /\ d \in ClearedTypes(data_type)
                    THEN CacheDel(cache[d],
                            { k \in CacheKeys(cache[d]) : ClearedKey(k, ticker) })
                    ELSE cache[d] ]
    /\ cache_hits' = [ d \in DataTypes |->
                    IF memory_cache_enabled /\ d \in ClearedTypes(data_type)
                    THEN [ k \in AllKeys |->
                            IF ClearedKey(k, ticker) THEN 0 ELSE cache_hits[d][k] ]
                    ELSE cache_hits[d] ]
    /\ disk' = [ d \in DataTypes |->
                    IF disk_cache_enabled /\ d \in ClearedTypes(data_type)
                    THEN [ k \in AllKeys |->
                            IF ClearedKey(k, ticker) THEN NoFile ELSE disk[d][k] ]
                    ELSE disk[d] ]
    /\ lock' = "none"
    /\ Goto(t, "done")
    /\ UNCHANGED << config, now, frame >>
    /\ LiveFrame

LvGetDisk(t) == GetDisk(t) /\ LiveFrame
LvEnforce(t) == Enforce(t) /\ LiveFrame
LvSetDisk(t) == SetDisk(t) /\ LiveFrame
LvReturn(t) == Return(t) /\ LiveFrame

\* the steps of a Cache call in progress that need no lock to be free
LvRun(t) ==
    \/ LvLookup(t)
    \/ LvStore(t)
    \/ LvHitUpdate(t)
    \/ LvHitReturn(t)
    \/ LvClear(t)
    \/ LvGetDisk(t)
    \/ LvEnforce(t)
    \/ LvSetDisk(t)
    \/ LvReturn(t)

\* load_stocks_data is called only where no Cache caller exists
LvBatchCall == pc["t1"] = "absent" /\ BtCall
\* the steps of a load_stocks_data call in progress
LvBatchRun ==
    \/ BtSingleGet
    \/ BtSingleStep
    \/ BtSingleReturn
    \/ \E w \in DlThreads \ {"main"} :
        \/ BtTaskStart(w)
        \/ BtTaskStep(w)
        \/ BtTaskFinish(w)
    \/ BtCollect
    \/ BtReturn

LiveInit ==
    /\ now = 0
    /\ UtilsUnused /\ NoCall
    /\ \/ CacheInit /\ max_memory_items = 1 /\ ~memory_optimization /\ LoaderUnused
       \/ /\ CacheEmpty /\ pc = [t \in Threads |-> "absent"]
          /\ LoaderInit /\ ~dl_memory_optimization
          /\ dl_cache_timeout_days = DefaultTimeoutDays
LiveNext ==
    \/ \E t \in Threads :
        \/ LvCallGet(t)
        \/ LvCallSet(t)
        \/ LvCallClear(t)
        \/ LvAcquire(t)
        \/ LvHitAcquire(t)
        \/ LvRun(t)
    \/ LvBatchCall
    \/ LvBatchRun
    \/ BtNext
Fairness ==
    /\ \A t \in Threads :
        /\ WF_vars(LvRun(t))
        /\ SF_vars(LvAcquire(t))
        /\ SF_vars(LvHitAcquire(t))
    /\ WF_vars(LvBatchRun)
LiveSpec == LiveInit /\ [][LiveNext]_vars /\ Fairness

InCall(t) == pc[t] \notin {"idle", "absent"}
InBatch == dl_pc["main"] \notin {"idle", "batch_done", "batch_raised"}

\* C39: under fair scheduling every get_X, set_X and clear_cache call and
\* every single or batch load eventually returns, with the lock released;
\* the nested acquisition of the lock in _update_cache_hit does not block
\* the thread that already holds it
C39_EveryCallReturns ==
    /\ \A t \in Threads : InCall(t) ~> (pc[t] = "idle" /\ lock # t)
    /\ InBatch ~> (dl_pc["main"] \in {"batch_done", "batch_raised"}
                   /\ \A w \in DlThreads \ {"main"} : dl_pc[w] = "idle")

\* a caller inside _update_cache_hit, holding the lock it took before, while
\* the other caller waits for the lock
C39_Witness ==
    /\ pc["t1"] = "set_hit_locked"
    /\ lock = "t1"
    /\ pc["t2"] \in OuterWaits

====
